---- MODULE Spec2Model ----
(***************************************************************************)
(* A model of the vCenter MCP server (davlloyd/vcenter-mcp).               *)
(*                                                                         *)
(*   SpecConfig  the configuration resolver (main/config/config_manager.py)*)
(*               run against a process environment drawn from EnvSet.      *)
(*   Spec        the serving process: the five tool handlers of            *)
(*               main/views/mcp_tools.py on top of the controller and the  *)
(*               API client, run against every answer of the remote API.   *)
(*                                                                         *)
(* Python values are modelled as follows.  A str is a TLA+ string.  An     *)
(* Optional[str] is [set |-> FALSE] (None) or [set |-> TRUE, v |-> s].     *)
(* A call that may raise yields [raised |-> TRUE, exc |-> type, msg |-> m] *)
(* or [raised |-> FALSE, val |-> v].                                       *)
(***************************************************************************)
EXTENDS Integers, Sequences, FiniteSets, TLC

VARIABLES
    env,       \* the process environment (os.environ after load_dotenv)
    cfgCall,   \* the last call made on the ConfigManager and what it gave
    config,    \* the VCenterConfig held by the controller and the service
    call,      \* the last tool invocation: its inputs, its requests, its result
    server     \* the server process: where main stands and what it has built

vars == <<env, cfgCall, config, call, server>>

-----------------------------------------------------------------------------
(* Bounds.                                                                 *)

\* the largest number of service descriptors in a VCAP_SERVICES document
MaxServices == 2

\* the largest number of records in one listing answered by the remote API
MaxRecords == 2

\* the largest number of records in one listing that the status operation counts
MaxCount == 5
MaxInvocations == 2

-----------------------------------------------------------------------------
(* Strings.                                                                *)

CharAt(s, i) == SubSeq(s, i, i)

UPPER == "ABCDEFGHIJKLMNOPQRSTUVWXYZ"
LOWER == "abcdefghijklmnopqrstuvwxyz"
DIGITS == "0123456789"

\* the lower-case letter of every upper-case letter
LowerTable ==
    [c \in {CharAt(UPPER, i) : i \in 1..Len(UPPER)} |->
        CharAt(LOWER, CHOOSE i \in 1..Len(UPPER) : CharAt(UPPER, i) = c)]

\* str.lower() on one character
LowerChar(c) == IF c \in DOMAIN LowerTable THEN LowerTable[c] ELSE c

RECURSIVE LowerFrom(_, _)
LowerFrom(s, i) ==
    IF i > Len(s) THEN "" ELSE LowerChar(CharAt(s, i)) \o LowerFrom(s, i + 1)

\* str.lower()
Lower(s) == LowerFrom(s, 1)

\* needle in hay (Python substring test)
Contains(needle, hay) ==
    \E i \in 1..(Len(hay) - Len(needle) + 1) :
        SubSeq(hay, i, i + Len(needle) - 1) = needle

\* s.startswith(p)
StartsWith(s, p) == Len(p) <= Len(s) /\ SubSeq(s, 1, Len(p)) = p

\* s.endswith(p)
EndsWith(s, p) == Len(p) <= Len(s) /\ SubSeq(s, Len(s) - Len(p) + 1, Len(s)) = p

IsSpace(c) == c \in {" ", "\t", "\n"}
IsDigit(c) == \E i \in 1..Len(DIGITS) : CharAt(DIGITS, i) = c
DigitVal(c) == (CHOOSE i \in 1..Len(DIGITS) : CharAt(DIGITS, i) = c) - 1

RECURSIVE LStrip(_)
LStrip(s) == IF Len(s) > 0 /\ IsSpace(CharAt(s, 1)) THEN LStrip(SubSeq(s, 2, Len(s))) ELSE s

RECURSIVE RStripSpace(_)
RStripSpace(s) ==
    IF Len(s) > 0 /\ IsSpace(CharAt(s, Len(s))) THEN RStripSpace(SubSeq(s, 1, Len(s) - 1)) ELSE s

\* the value of a run of decimal digits and underscores, read left to right
RECURSIVE DigitsValue(_, _, _)
DigitsValue(s, i, acc) ==
    IF i > Len(s) THEN acc
    ELSE IF CharAt(s, i) = "_" THEN DigitsValue(s, i + 1, acc)
    ELSE DigitsValue(s, i + 1, 10 * acc + DigitVal(CharAt(s, i)))

\* int(s): surrounding whitespace is ignored, one optional sign, then decimal
\* digits that single underscores may separate; anything else is a ValueError
ParseInt(s) ==
    LET t    == RStripSpace(LStrip(s))
        neg  == Len(t) > 0 /\ CharAt(t, 1) = "-"
        sgn  == Len(t) > 0 /\ CharAt(t, 1) \in {"-", "+"}
        body == IF sgn THEN SubSeq(t, 2, Len(t)) ELSE t
        ok   == /\ Len(body) > 0
                /\ \A i \in 1..Len(body) : IsDigit(CharAt(body, i)) \/ CharAt(body, i) = "_"
                /\ IsDigit(CharAt(body, 1))
                /\ IsDigit(CharAt(body, Len(body)))
                /\ \A i \in 1..(Len(body) - 1) :
                       ~(CharAt(body, i) = "_" /\ CharAt(body, i + 1) = "_")
    IN  IF ok
        THEN [raised |-> FALSE,
              val |-> IF neg THEN 0 - DigitsValue(body, 1, 0) ELSE DigitsValue(body, 1, 0)]
        ELSE [raised |-> TRUE, exc |-> "ValueError",
              msg |-> "invalid literal for int() with base 10"]

-----------------------------------------------------------------------------
(* Python values.                                                          *)

None == [set |-> FALSE]
Some(s) == [set |-> TRUE, v |-> s]

\* bool(x) of an Optional[str]: None and "" are false
Truthy(o) == o.set /\ o.v # ""

Return(v) == [raised |-> FALSE, val |-> v]
Raise(e, m) == [raised |-> TRUE, exc |-> e, msg |-> m]

-----------------------------------------------------------------------------
(* The process environment.                                                *)
(*                                                                         *)
(* env is a record with one field per variable the resolver reads.  The    *)
(* five plain variables are Optional[str].  VCAP_SERVICES is a text that   *)
(* the model keeps by what json.loads makes of it: None, or                *)
(* [set |-> TRUE, empty |-> e, json |-> result of json.loads].             *)
(* A parsed document is a JSON value: [type |-> "array"] for a value that  *)
(* is no object, or [type |-> "object", items |-> buckets], the buckets in *)
(* document order, each [key |-> service type, value |-> descriptors].     *)
(* A descriptor is [type |-> "string"] (no object) or an object whose      *)
(* name and label are JSON fields ([has |-> FALSE], or has with null TRUE, *)
(* or has with a string v) and whose credentials are absent or hold the    *)
(* three Optional[str] that dict.get gives for host, username, password.   *)

os_getenv(e, name) == e[name]

os_getenv_default(e, name, default) == IF e[name].set THEN e[name].v ELSE default

Absent == [has |-> FALSE]
JNull == [has |-> TRUE, null |-> TRUE]
JStr(s) == [has |-> TRUE, null |-> FALSE, v |-> s]

NoCredentials == [has |-> FALSE]
Credentials(h, u, p) == [has |-> TRUE, host |-> h, username |-> u, password |-> p]

Service(n, l, c) == [type |-> "object", name |-> n, label |-> l, credentials |-> c]

VcapUnset == [set |-> FALSE]
VcapEmpty == [set |-> TRUE, empty |-> TRUE, json |-> Raise("JSONDecodeError", "Expecting value")]
VcapMalformed == [set |-> TRUE, empty |-> FALSE, json |-> Raise("JSONDecodeError", "Expecting property name")]
VcapJson(doc) == [set |-> TRUE, empty |-> FALSE, json |-> Return(doc)]

json_loads(text) == text.json

-----------------------------------------------------------------------------
(* ConfigManager (main/config/config_manager.py).                          *)

VCenterCredentials(h, u, p) == [host |-> h, username |-> u, password |-> p]

VCenterConfig(h, u, p, verify, timeout) ==
    [host |-> h, username |-> u, password |-> p, verify_ssl |-> verify, timeout |-> timeout]

vcenter_keywords == <<"vcenter", "vmware", "esxi">>

DEFAULT_TIMEOUT == 30

CredentialsNotFound ==
    "vCenter credentials not found in environment variables or service binding. "
    \o "Please set VCENTER_HOST, VCENTER_USERNAME, and VCENTER_PASSWORD environment "
    \o "variables or bind to a vCenter service in Cloud Foundry."

\* dict.get(key, '') followed by .lower(): a null value has no lower()
GetLower(field) ==
    IF ~field.has THEN Return("")
    ELSE IF field.null THEN Raise("AttributeError", "'NoneType' object has no attribute 'lower'")
    ELSE Return(Lower(field.v))

\* a mutant: every descriptor counts as a vCenter service
IsVcenterServiceAny(service) ==
    IF service.type # "object"
    THEN Raise("AttributeError", "'str' object has no attribute 'get'")
    ELSE Return(TRUE)

\* ConfigManager._is_vcenter_service
_is_vcenter_service(service) ==
    IF service.type # "object"
    THEN Raise("AttributeError", "'str' object has no attribute 'get'")
    ELSE LET service_name  == GetLower(service.name)
             service_label == GetLower(service.label)
         IN  IF service_name.raised THEN service_name
             ELSE IF service_label.raised THEN service_label
             ELSE Return(\E k \in 1..Len(vcenter_keywords) :
                            \/ Contains(vcenter_keywords[k], service_name.val)
                            \/ Contains(vcenter_keywords[k], service_label.val))

\* the descriptors of every bucket, in the order the two nested loops visit them
RECURSIVE ServicesInOrder(_)
ServicesInOrder(items) ==
    IF items = <<>> THEN <<>> ELSE Head(items).value \o ServicesInOrder(Tail(items))

\* the body of the two loops of _get_credentials_from_service_binding over the
\* a mutant: the scan ends at the first matching descriptor, whatever its credentials
RECURSIVE ScanServicesFirstMatchOnly(_)
ScanServicesFirstMatchOnly(services) ==
    IF services = <<>> THEN Return(None)
    ELSE LET service == Head(services)
             match   == _is_vcenter_service(service)
         IN  IF match.raised THEN match
             ELSE IF ~match.val THEN ScanServicesFirstMatchOnly(Tail(services))
             ELSE LET credentials == service.credentials
                      host     == IF credentials.has THEN credentials.host ELSE None
                      username == IF credentials.has THEN credentials.username ELSE None
                      password == IF credentials.has THEN credentials.password ELSE None
                  IN  IF Truthy(host) /\ Truthy(username) /\ Truthy(password)
                      THEN Return(Some(VCenterCredentials(host.v, username.v, password.v)))
                      ELSE Return(None)

\* descriptors still to visit: the first matching descriptor with three truthy
\* credentials is returned, an exception ends the scan
RECURSIVE ScanServices(_)
ScanServices(services) ==
    IF services = <<>> THEN Return(None)
    ELSE LET service == Head(services)
             match   == _is_vcenter_service(service)
         IN  IF match.raised THEN match
             ELSE IF ~match.val THEN ScanServices(Tail(services))
             ELSE LET credentials == service.credentials
                      host     == IF credentials.has THEN credentials.host ELSE None
                      username == IF credentials.has THEN credentials.username ELSE None
                      password == IF credentials.has THEN credentials.password ELSE None
                  IN  IF Truthy(host) /\ Truthy(username) /\ Truthy(password)
                      THEN Return(Some(VCenterCredentials(host.v, username.v, password.v)))
                      ELSE ScanServices(Tail(services))

\* ConfigManager._get_credentials_from_service_binding: Optional[VCenterCredentials]
_get_credentials_from_service_binding(e) ==
    LET vcap_services == os_getenv(e, "VCAP_SERVICES")
    IN  IF ~vcap_services.set \/ vcap_services.empty THEN None
        ELSE LET services == json_loads(vcap_services)
             IN  IF services.raised THEN None                   \* except JSONDecodeError
                 ELSE IF services.val.type # "object" THEN None \* except Exception
                 ELSE LET found == ScanServices(ServicesInOrder(services.val.items))
                      IN  IF found.raised THEN None             \* except Exception
                          ELSE found.val

OrEmpty(o) == IF o.set THEN o.v ELSE ""

\* a mutant: any() in place of all(), one variable is enough
CredentialsFromEnvAny(e) ==
    LET host     == os_getenv(e, "VCENTER_HOST")
        username == os_getenv(e, "VCENTER_USERNAME")
        password == os_getenv(e, "VCENTER_PASSWORD")
    IN  IF Truthy(host) \/ Truthy(username) \/ Truthy(password)
        THEN Some(VCenterCredentials(OrEmpty(host), OrEmpty(username), OrEmpty(password)))
        ELSE None

\* ConfigManager._get_credentials_from_env: Optional[VCenterCredentials]
_get_credentials_from_env(e) ==
    LET host     == os_getenv(e, "VCENTER_HOST")
        username == os_getenv(e, "VCENTER_USERNAME")
        password == os_getenv(e, "VCENTER_PASSWORD")
    IN  IF Truthy(host) /\ Truthy(username) /\ Truthy(password)
        THEN Some(VCenterCredentials(host.v, username.v, password.v))
        ELSE None

\* a mutant: the service binding is asked before the environment
CredentialsBindingFirst(e) ==
    LET from_binding == _get_credentials_from_service_binding(e)
    IN  IF from_binding.set THEN Return(from_binding.v)
        ELSE LET from_env == _get_credentials_from_env(e)
             IN  IF from_env.set THEN Return(from_env.v)
                 ELSE Raise("ValueError", CredentialsNotFound)

\* a mutant: the JSONDecodeError of the binding is not caught and leaves the
\* resolver
CredentialsJsonErrorEscapes(e) ==
    LET from_env == _get_credentials_from_env(e)
        vcap_services == os_getenv(e, "VCAP_SERVICES")
    IN  IF from_env.set THEN Return(from_env.v)
        ELSE IF vcap_services.set /\ ~vcap_services.empty /\ json_loads(vcap_services).raised
        THEN json_loads(vcap_services)
        ELSE LET from_binding == _get_credentials_from_service_binding(e)
             IN  IF from_binding.set THEN Return(from_binding.v)
                 ELSE Raise("ValueError", CredentialsNotFound)

\* a mutant: each field the environment holds wins over the field of the binding
CredentialsPerField(e) ==
    LET from_env == _get_credentials_from_env(e)
        host     == os_getenv(e, "VCENTER_HOST")
        username == os_getenv(e, "VCENTER_USERNAME")
        password == os_getenv(e, "VCENTER_PASSWORD")
    IN  IF from_env.set THEN Return(from_env.v)
        ELSE LET from_binding == _get_credentials_from_service_binding(e)
             IN  IF from_binding.set
                 THEN Return(VCenterCredentials(
                          IF Truthy(host) THEN host.v ELSE from_binding.v.host,
                          IF Truthy(username) THEN username.v ELSE from_binding.v.username,
                          IF Truthy(password) THEN password.v ELSE from_binding.v.password))
                 ELSE Raise("ValueError", CredentialsNotFound)

\* ConfigManager.get_vcenter_credentials
get_vcenter_credentials(e) ==
    LET from_env == _get_credentials_from_env(e)
    IN  IF from_env.set THEN Return(from_env.v)
        ELSE LET from_binding == _get_credentials_from_service_binding(e)
             IN  IF from_binding.set THEN Return(from_binding.v)
                 ELSE Raise("ValueError", CredentialsNotFound)

\* a mutant: the value is compared as written, without lower()
VerifySslExact(e) == os_getenv_default(e, "VCENTER_VERIFY_SSL", "true") # "false"

\* the verify_ssl lines of get_vcenter_config
VerifySsl(e) == Lower(os_getenv_default(e, "VCENTER_VERIFY_SSL", "true")) # "false"

\* the timeout lines of get_vcenter_config
Timeout(e) ==
    LET timeout_str == os_getenv_default(e, "VCENTER_TIMEOUT", "30")
        parsed      == ParseInt(timeout_str)
    IN  IF parsed.raised THEN DEFAULT_TIMEOUT ELSE parsed.val

\* a mutant: int() is not guarded, its ValueError leaves get_vcenter_config
ConfigTimeoutUnguarded(e) ==
    LET credentials == get_vcenter_credentials(e)
        parsed      == ParseInt(os_getenv_default(e, "VCENTER_TIMEOUT", "30"))
    IN  IF credentials.raised THEN credentials
        ELSE IF parsed.raised THEN parsed
        ELSE Return(VCenterConfig(credentials.val.host, credentials.val.username,
                                  credentials.val.password, VerifySsl(e), parsed.val))

\* ConfigManager.get_vcenter_config
get_vcenter_config(e) ==
    LET credentials == get_vcenter_credentials(e)
    IN  IF credentials.raised THEN credentials
        ELSE Return(VCenterConfig(credentials.val.host, credentials.val.username,
                                  credentials.val.password, VerifySsl(e), Timeout(e)))

-----------------------------------------------------------------------------
(* The environments the resolver is run against.                           *)

EnvHost == "https://env-vcenter.example.com"
EnvHostSlash == "https://env-vcenter.example.com/"
EnvUser == "env-admin"
EnvPassword == "env-password"

HostValues == {None, Some(""), Some(EnvHost), Some(EnvHostSlash)}
UserValues == {None, Some(""), Some(EnvUser)}
PasswordValues == {None, Some(""), Some(EnvPassword)}

VerifyValues ==
    {None, Some("false"), Some("FALSE"), Some("False"), Some("true"),
     Some("invalid"), Some("0"), Some("")}

\* VCENTER_TIMEOUT texts that int() accepts, each with its value
IntegerTexts ==
    {<<"30", 30>>, <<"60", 60>>, <<"0", 0>>, <<"-5", 0 - 5>>, <<" 7 ", 7>>,
     <<"1_0", 10>>, <<"+3", 3>>}

\* VCENTER_TIMEOUT texts that int() rejects
NonIntegerTexts == {"invalid", "", "3.5", "1__0", "-", "30s"}

TimeoutValues ==
    {None} \cup {Some(t[1]) : t \in IntegerTexts} \cup {Some(t) : t \in NonIntegerTexts}

ServiceCredentials ==
    Credentials(Some("https://service-vcenter.example.com"), Some("service-admin"),
                Some("service-password"))
LabelCredentials ==
    Credentials(Some("https://esxi.example.com/"), Some("esxi-admin"), Some("esxi-password"))
MysqlCredentials == Credentials(Some("mysql.example.com"), Some("user"), Some("pass"))
PartialCredentials ==
    Credentials(Some("https://old-vcenter.example.com"), Some("old-admin"), Some(""))

SvcVcenter == Service(JStr("my-vcenter"), Absent, ServiceCredentials)
SvcLabel == Service(JStr("inventory"), JStr("VMware-ESXi"), LabelCredentials)
SvcMysql == Service(JStr("my-mysql"), JStr("mysql"), MysqlCredentials)
SvcPartial == Service(JStr("Old-vCenter"), Absent, PartialCredentials)
SvcNullName == Service(JNull, JStr("vcenter"), ServiceCredentials)

Descriptors == {SvcVcenter, SvcLabel, SvcMysql, SvcPartial, SvcNullName}

\* the service-type key of the b-th bucket of a document
BucketKey(b) == IF b = 1 THEN "vcenter" ELSE IF b = 2 THEN "mysql" ELSE "user-provided"

\* the bucket of the i-th descriptor when cuts[j] says a bucket ends after the j-th
BucketOf(cuts, i) == 1 + Cardinality({j \in 1..(i - 1) : cuts[j]})

\* the document that holds the descriptors f split into buckets by cuts
Document(f, cuts) ==
    [type  |-> "object",
     items |-> [b \in 1..(IF f = <<>> THEN 0 ELSE BucketOf(cuts, Len(f))) |->
                   LET at == {i \in 1..Len(f) : BucketOf(cuts, i) = b}
                       lo == CHOOSE i \in at : \A j \in at : i <= j
                       hi == CHOOSE i \in at : \A j \in at : j <= i
                   IN  [key |-> BucketKey(b), value |-> SubSeq(f, lo, hi)]]]

Documents ==
    UNION { { Document(f, cuts) : cuts \in [1..(Len(f) - 1) -> BOOLEAN] } :
            f \in UNION { [1..n -> Descriptors] : n \in 0..MaxServices } }

VcapValues ==
    {VcapUnset, VcapEmpty, VcapMalformed, VcapJson([type |-> "array"])}
        \cup {VcapJson(d) : d \in Documents}

Environment(h, u, p, verify, timeout, vcap) ==
    [VCENTER_HOST |-> h, VCENTER_USERNAME |-> u, VCENTER_PASSWORD |-> p,
     VCENTER_VERIFY_SSL |-> verify, VCENTER_TIMEOUT |-> timeout, VCAP_SERVICES |-> vcap]

\* every credential source against every binding, the options left unset
CredentialEnvs ==
    {Environment(h, u, p, None, None, vcap) :
        h \in HostValues \ {Some(EnvHostSlash)}, u \in UserValues, p \in PasswordValues,
        vcap \in VcapValues}

\* every option, with the credentials coming from the environment or a binding
OptionEnvs ==
    {Environment(h, Some(EnvUser), Some(EnvPassword), verify, timeout, vcap) :
        h \in HostValues \ {Some("")},
        verify \in VerifyValues, timeout \in TimeoutValues,
        vcap \in {VcapUnset, VcapJson(Document(<<SvcVcenter>>, <<>>))}}

EnvSet == CredentialEnvs \cup OptionEnvs

NoCall == [op |-> "none"]
NoConfig == [loaded |-> FALSE]
Idle == [tool |-> "none"]

\* the server process.  pc is where main stands; resolution tells how
\* get_vcenter_config ended; controller, view, app, health, tools and transport
\* tell what create_mcp_server and main_async have built, registered and
\* started so far; exit is the status the process ended with.
NoServer == [pc |-> "none"]

Starting ==
    [pc |-> "main_async", resolution |-> "pending", controller |-> FALSE, view |-> FALSE,
     app |-> FALSE, health |-> FALSE, tools |-> FALSE, transport |-> FALSE, exit |-> None]

Serving ==
    [pc |-> "serving", resolution |-> "ok", controller |-> TRUE, view |-> TRUE,
     app |-> TRUE, health |-> TRUE, tools |-> TRUE, transport |-> TRUE, exit |-> None]

-----------------------------------------------------------------------------
(* SpecConfig: calls on a ConfigManager in a given environment.            *)

ConfigInit ==
    /\ env \in EnvSet
    /\ cfgCall = NoCall
    /\ config = NoConfig
    /\ call = Idle
    /\ server = NoServer

GetVcenterConfig ==
    /\ cfgCall' = [op |-> "get_vcenter_config", result |-> get_vcenter_config(env)]
    /\ UNCHANGED <<env, config, call, server>>

GetVcenterCredentials ==
    /\ cfgCall' = [op |-> "get_vcenter_credentials", result |-> get_vcenter_credentials(env)]
    /\ UNCHANGED <<env, config, call, server>>

GetCredentialsFromServiceBinding ==
    /\ cfgCall' = [op |-> "_get_credentials_from_service_binding",
                   result |-> _get_credentials_from_service_binding(env)]
    /\ UNCHANGED <<env, config, call, server>>

GetCredentialsFromEnv ==
    /\ cfgCall' = [op |-> "_get_credentials_from_env",
                   result |-> _get_credentials_from_env(env)]
    /\ UNCHANGED <<env, config, call, server>>

ConfigNext ==
    \/ GetVcenterConfig
    \/ GetVcenterCredentials
    \/ GetCredentialsFromServiceBinding
    \/ GetCredentialsFromEnv

SpecConfig == ConfigInit /\ [][ConfigNext]_vars

-----------------------------------------------------------------------------
(* The remote API.                                                         *)
(*                                                                         *)
(* One answer of the remote API to one GET:                                *)
(*   network_error  the connection fails, session.request raises           *)
(*   http_error     a non-2xx status, raise_for_status raises              *)
(*   bad_json       a 2xx answer whose body is no JSON, response.json()    *)
(*                  raises requests' JSONDecodeError (a RequestException)  *)
(*   ok             a 2xx answer with a JSON body: [type |-> "array"] for  *)
(*                  a body that is no object, or an object with or without *)
(*                  the key "value", which holds the listing               *)
(* A raw record of a listing is a Python dict, here a TLA+ record; the     *)
(* keys it lacks are the keys dict.get answers with its default.  The      *)
(* value of a key is a JSON string, Some(s), or the JSON null, None.       *)

NetworkError == [kind |-> "network_error"]
HttpError == [kind |-> "http_error", status |-> "500"]
BadJson == [kind |-> "bad_json"]
OkArray == [kind |-> "ok", body |-> [type |-> "array"]]
OkNoValue == [kind |-> "ok", body |-> [type |-> "object", has_value |-> FALSE]]
Ok(listing) == [kind |-> "ok", body |-> [type |-> "object", has_value |-> TRUE, value |-> listing]]

Failures == {NetworkError, HttpError, BadJson}

RawProd == [cluster |-> Some("domain-c1"), name |-> Some("Prod")]
RawProdTwin == [cluster |-> Some("domain-c2"), name |-> Some("Prod")]
RawBareCluster == [drs_enabled |-> Some("false")]
RawNullCluster == [cluster |-> Some("domain-c3"), name |-> None]
RawBlankCluster == [cluster |-> Some(""), name |-> Some("Prod")]
RawClusters == {RawProd, RawProdTwin, RawBareCluster, RawNullCluster, RawBlankCluster}

RawGold == [resource_pool |-> Some("resgroup-1"), name |-> Some("Gold")]
RawBarePool == [resource_pool |-> Some("resgroup-2")]
RawBlankPool == [resource_pool |-> Some(""), name |-> Some("Gold")]
RawResourcePools == {RawGold, RawBarePool, RawBlankPool}

RawWeb == [vm |-> Some("vm-1"), name |-> Some("web"), power_state |-> Some("POWERED_ON")]
RawDb == [name |-> Some("db"), cluster |-> Some("domain-c9"),
          resource_pool |-> Some("resgroup-9")]
RawVms == {RawWeb, RawDb}

Listings(records, max) == UNION { [1..n -> records] : n \in 0..max }

\* every answer to a listing request whose records come from `records`
Answers(records, max) ==
    Failures \cup {OkArray, OkNoValue} \cup {Ok(l) : l \in Listings(records, max)}

\* every answer to a request of the status operation, which only counts the
\* records of a listing: the listings hold up to max copies of one record
CountedAnswers(record, max) ==
    Failures \cup {OkArray, OkNoValue} \cup {Ok([i \in 1..n |-> record]) : n \in 0..max}

\* dict.get(key, default)
dict_get(d, key, default) == IF key \in DOMAIN d THEN d[key] ELSE default

\* dict.get(key) on a raw record: None when the key is missing
dict_get_opt(d, key) == IF key \in DOMAIN d THEN d[key] ELSE None

\* dict.get(key) on a status snapshot, whose values are never None
snapshot_get(d, key) == IF key \in DOMAIN d THEN Some(d[key]) ELSE None

\* str(x) in an f-string
Str(o) == IF o.set THEN o.v ELSE "None"

-----------------------------------------------------------------------------
(* VCenterService (main/services/vcenter_service.py).                      *)
(*                                                                         *)
(* Every operation of the service issues one GET.  An operation takes the  *)
(* answer the remote API gives to that GET and yields                      *)
(*   [raised, val or exc and msg, requests |-> <<the request it issued>>]. *)

\* str.rstrip('/')
RECURSIVE RStripSlash(_)
RStripSlash(s) ==
    IF Len(s) > 0 /\ CharAt(s, Len(s)) = "/" THEN RStripSlash(SubSeq(s, 1, Len(s) - 1)) ELSE s

\* VCenterService.__init__: self.host
ServiceHost(cfg) == RStripSlash(cfg.host)

\* VCenterService._create_session: the attributes set on the requests.Session
_create_session(cfg) ==
    [auth |-> [scheme |-> "basic", username |-> cfg.username, password |-> cfg.password],
     verify |-> cfg.verify_ssl,
     timeout |-> cfg.timeout]

\* the keyword arguments the listing operations hand to _make_request: none
NoKwargs == <<>>

\* session.request(method, url, **kwargs): requests merges the auth and verify
\* attributes of the session into the request; the timeout of a request is its
\* keyword argument alone (None: wait without limit), a timeout attribute set
\* on the session is read by nothing
session_request(session, method, url, kwargs) ==
    [method |-> method, url |-> url,
     auth |-> dict_get(kwargs, "auth", session.auth),
     verify |-> dict_get(kwargs, "verify", session.verify),
     timeout |-> dict_get(kwargs, "timeout", None)]

\* the GET that _make_request issues for an endpoint, with the answer it got
Request(cfg, op, endpoint, answer) ==
    [op |-> op, answer |-> answer]
        @@ session_request(_create_session(cfg), "GET",
                           ServiceHost(cfg) \o "/rest/" \o endpoint, NoKwargs)

\* VCenterService._make_request: the JSON body, or Exception
_make_request(endpoint, answer) ==
    IF answer.kind = "network_error"
    THEN Raise("Exception", "vCenter API request failed: Connection refused")
    ELSE IF answer.kind = "http_error"
    THEN Raise("Exception", "vCenter API request failed: " \o answer.status \o " Server Error")
    ELSE IF answer.kind = "bad_json"
    THEN Raise("Exception", "vCenter API request failed: Expecting value")
    ELSE Return(answer.body)

\* response.get("value", []) on the body _make_request returned
ResponseValue(body) ==
    IF body.type # "object"
    THEN Raise("AttributeError", "'list' object has no attribute 'get'")
    ELSE IF body.has_value THEN Return(body.value) ELSE Return(<<>>)

\* response.get("value", []) on what _make_request gave; its exception passes
ValueOf(response) == IF response.raised THEN response ELSE ResponseValue(response.val)

\* except Exception: return []
OrEmptyList(fetched) == IF fetched.raised THEN Return(<<>>) ELSE fetched

\* what a listing operation hands back, with the request it issued
Listed(cfg, op, endpoint, answer, outcome) ==
    outcome @@ [requests |-> <<Request(cfg, op, endpoint, answer) @@ [returned |-> outcome]>>]

\* a mutant: the listing operation lets the exception through
ServiceGetClustersUnguarded(cfg, answer) ==
    Listed(cfg, "get_clusters", "vcenter/cluster", answer,
           ValueOf(_make_request("vcenter/cluster", answer)))

\* VCenterService.get_clusters
Service_get_clusters(cfg, answer) ==
    Listed(cfg, "get_clusters", "vcenter/cluster", answer,
           OrEmptyList(ValueOf(_make_request("vcenter/cluster", answer))))

\* the endpoint of get_resource_pools
ResourcePoolEndpoint(cluster_id) ==
    "vcenter/resource-pool" \o (IF Truthy(cluster_id) THEN "?clusters=" \o cluster_id.v ELSE "")

\* VCenterService.get_resource_pools
Service_get_resource_pools(cfg, cluster_id, answer) ==
    Listed(cfg, "get_resource_pools", ResourcePoolEndpoint(cluster_id), answer,
           OrEmptyList(ValueOf(_make_request(ResourcePoolEndpoint(cluster_id), answer))))

\* "&".join(params)
RECURSIVE JoinAmp(_)
JoinAmp(params) ==
    IF params = <<>> THEN ""
    ELSE IF Len(params) = 1 THEN params[1]
    ELSE params[1] \o "&" \o JoinAmp(Tail(params))

\* the params of get_virtual_machines
VmParams(cluster_id, resource_pool_id) ==
    (IF Truthy(cluster_id) THEN <<"clusters=" \o cluster_id.v>> ELSE <<>>)
        \o (IF Truthy(resource_pool_id) THEN <<"resource_pools=" \o resource_pool_id.v>>
            ELSE <<>>)

\* the endpoint of get_virtual_machines
VmEndpoint(cluster_id, resource_pool_id) ==
    "vcenter/vm"
        \o (IF VmParams(cluster_id, resource_pool_id) # <<>>
            THEN "?" \o JoinAmp(VmParams(cluster_id, resource_pool_id)) ELSE "")

\* a mutant: a failed request is issued a second time
ServiceGetVirtualMachinesRetried(cfg, cluster_id, resource_pool_id, answer) ==
    LET listed ==
            Listed(cfg, "get_virtual_machines", VmEndpoint(cluster_id, resource_pool_id),
                   answer,
                   OrEmptyList(ValueOf(_make_request(
                       VmEndpoint(cluster_id, resource_pool_id), answer))))
    IN  IF answer.kind = "ok" THEN listed
        ELSE [listed EXCEPT !.requests = listed.requests \o listed.requests]

\* VCenterService.get_virtual_machines
Service_get_virtual_machines(cfg, cluster_id, resource_pool_id, answer) ==
    Listed(cfg, "get_virtual_machines", VmEndpoint(cluster_id, resource_pool_id), answer,
           OrEmptyList(ValueOf(_make_request(VmEndpoint(cluster_id, resource_pool_id), answer))))

\* a mutant: the test tells whether the cluster request was answered
TestedByAnswer(clusters) ==
    [raised |-> FALSE,
     val |-> (clusters.requests[1].answer.kind = "ok"
                 /\ clusters.requests[1].answer.body.type = "object"),
     requests |-> clusters.requests]

\* the try block of test_connection, given what get_clusters gave
Tested(clusters) ==
    [raised |-> FALSE, val |-> ~clusters.raised, requests |-> clusters.requests]

\* VCenterService.test_connection
Service_test_connection(cfg, answer) == Tested(Service_get_clusters(cfg, answer))

-----------------------------------------------------------------------------
(* VCenterController (main/controllers/vcenter_controller.py).             *)
(*                                                                         *)
(* A controller operation takes the answers the remote API gives to the    *)
(* requests of one invocation, in the order of the requests, and the index *)
(* k of the answer to its own first request.  It yields                    *)
(*   [raised, val or exc and msg, requests |-> the requests it issued].    *)
(* The body of an operation that follows a call is an operator of what the *)
(* call gave.                                                              *)

Cluster(id, name) == [cluster_id |-> id, name |-> name, resource_pools |-> None]

ResourcePool(id, name, cluster_id) ==
    [resource_pool_id |-> id, name |-> name, cluster_id |-> cluster_id]

VirtualMachine(id, name, power_state, cluster_id, resource_pool_id) ==
    [vm_id |-> id, name |-> name, power_state |-> power_state,
     cluster_id |-> cluster_id, resource_pool_id |-> resource_pool_id]

Done(val, requests) == [raised |-> FALSE, val |-> val, requests |-> requests]

\* get_clusters after the service call: one Cluster per raw record
Clusters(raw_clusters) ==
    IF raw_clusters.raised THEN Done(<<>>, raw_clusters.requests)
    ELSE Done([i \in 1..Len(raw_clusters.val) |->
                  Cluster(dict_get(raw_clusters.val[i], "cluster", Some("Unknown")),
                          dict_get(raw_clusters.val[i], "name", Some("Unknown")))],
              raw_clusters.requests)

\* VCenterController.get_clusters
Controller_get_clusters(cfg, answers, k) == Clusters(Service_get_clusters(cfg, answers[k]))

\* a mutant: the names are compared without regard to case
RECURSIVE FirstNamedIgnoreCase(_, _)
FirstNamedIgnoreCase(clusters, cluster_name) ==
    IF clusters = <<>> THEN None
    ELSE IF Head(clusters).name.set /\ Lower(Head(clusters).name.v) = Lower(cluster_name)
    THEN Some(Head(clusters))
    ELSE FirstNamedIgnoreCase(Tail(clusters), cluster_name)

\* the loop of get_cluster_by_name: the first cluster of that name, or None
RECURSIVE FirstNamed(_, _)
FirstNamed(clusters, cluster_name) ==
    IF clusters = <<>> THEN None
    ELSE IF Head(clusters).name = Some(cluster_name) THEN Some(Head(clusters))
    ELSE FirstNamed(Tail(clusters), cluster_name)

\* get_cluster_by_name after get_clusters
ClusterNamed(clusters, cluster_name) ==
    IF clusters.raised THEN clusters
    ELSE Done(FirstNamed(clusters.val, cluster_name), clusters.requests)

\* VCenterController.get_cluster_by_name
Controller_get_cluster_by_name(cfg, cluster_name, answers, k) ==
    ClusterNamed(Controller_get_clusters(cfg, answers, k), cluster_name)

\* get_resource_pools_in_cluster after the service call
ResourcePoolsOf(cluster, raw_resource_pools) ==
    IF raw_resource_pools.raised
    THEN Done(<<>>, cluster.requests \o raw_resource_pools.requests)
    ELSE Done([i \in 1..Len(raw_resource_pools.val) |->
                  ResourcePool(dict_get(raw_resource_pools.val[i], "resource_pool",
                                        Some("Unknown")),
                               dict_get(raw_resource_pools.val[i], "name", Some("Unknown")),
                               cluster.val.v.cluster_id)],
              cluster.requests \o raw_resource_pools.requests)

\* get_resource_pools_in_cluster after the lookup of the cluster
ResourcePoolsIn(cfg, cluster, answers, k) ==
    IF cluster.raised THEN Done(<<>>, cluster.requests)
    ELSE IF ~cluster.val.set THEN Done(<<>>, cluster.requests)
    ELSE ResourcePoolsOf(cluster,
                         Service_get_resource_pools(cfg, cluster.val.v.cluster_id,
                                                    answers[k + Len(cluster.requests)]))

\* VCenterController.get_resource_pools_in_cluster
Controller_get_resource_pools_in_cluster(cfg, cluster_name, answers, k) ==
    ResourcePoolsIn(cfg, Controller_get_cluster_by_name(cfg, cluster_name, answers, k),
                    answers, k)

\* a mutant: the name asked for is compared with the defaulted name
RECURSIVE FirstRawNamedDefaulted(_, _)
FirstRawNamedDefaulted(raw_resource_pools, resource_pool_name) ==
    IF raw_resource_pools = <<>> THEN None
    ELSE IF dict_get(Head(raw_resource_pools), "name", Some("Unknown"))
                = Some(resource_pool_name)
    THEN Some(ResourcePool(dict_get(Head(raw_resource_pools), "resource_pool",
                                    Some("Unknown")),
                           dict_get(Head(raw_resource_pools), "name", Some("Unknown")),
                           None))
    ELSE FirstRawNamedDefaulted(Tail(raw_resource_pools), resource_pool_name)

\* the loop of get_resource_pool_by_name: the first raw pool of that name
RECURSIVE FirstRawNamed(_, _)
FirstRawNamed(raw_resource_pools, resource_pool_name) ==
    IF raw_resource_pools = <<>> THEN None
    ELSE IF dict_get_opt(Head(raw_resource_pools), "name") = Some(resource_pool_name)
    THEN Some(ResourcePool(dict_get(Head(raw_resource_pools), "resource_pool",
                                    Some("Unknown")),
                           dict_get(Head(raw_resource_pools), "name", Some("Unknown")),
                           None))
    ELSE FirstRawNamed(Tail(raw_resource_pools), resource_pool_name)

\* get_resource_pool_by_name after the service call
ResourcePoolNamed(raw_resource_pools, resource_pool_name) ==
    IF raw_resource_pools.raised THEN raw_resource_pools
    ELSE Done(FirstRawNamed(raw_resource_pools.val, resource_pool_name),
              raw_resource_pools.requests)

\* VCenterController.get_resource_pool_by_name
Controller_get_resource_pool_by_name(cfg, resource_pool_name, answers, k) ==
    ResourcePoolNamed(Service_get_resource_pools(cfg, None, answers[k]), resource_pool_name)

\* a mutant: the scope fields of the raw VM record win over the resolved scope
VirtualMachinesRawScope(raw_vms, cluster_id, resource_pool_id) ==
    [i \in 1..Len(raw_vms) |->
        VirtualMachine(dict_get(raw_vms[i], "vm", Some("Unknown")),
                       dict_get(raw_vms[i], "name", Some("Unknown")),
                       dict_get(raw_vms[i], "power_state", Some("Unknown")),
                       dict_get(raw_vms[i], "cluster", cluster_id),
                       dict_get(raw_vms[i], "resource_pool", resource_pool_id))]

\* the loop that maps raw VMs to VirtualMachine entities
VirtualMachines(raw_vms, cluster_id, resource_pool_id) ==
    [i \in 1..Len(raw_vms) |->
        VirtualMachine(dict_get(raw_vms[i], "vm", Some("Unknown")),
                       dict_get(raw_vms[i], "name", Some("Unknown")),
                       dict_get(raw_vms[i], "power_state", Some("Unknown")),
                       cluster_id, resource_pool_id)]

\* get_vms_in_cluster after the service call
VmsOfCluster(cluster, raw_vms) ==
    IF raw_vms.raised THEN Done(<<>>, cluster.requests \o raw_vms.requests)
    ELSE Done(VirtualMachines(raw_vms.val, cluster.val.v.cluster_id, None),
              cluster.requests \o raw_vms.requests)

\* get_vms_in_cluster after the lookup of the cluster
VmsInCluster(cfg, cluster, answers, k) ==
    IF cluster.raised THEN Done(<<>>, cluster.requests)
    ELSE IF ~cluster.val.set THEN Done(<<>>, cluster.requests)
    ELSE VmsOfCluster(cluster,
                      Service_get_virtual_machines(cfg, cluster.val.v.cluster_id, None,
                                                   answers[k + Len(cluster.requests)]))

\* VCenterController.get_vms_in_cluster
Controller_get_vms_in_cluster(cfg, cluster_name, answers, k) ==
    VmsInCluster(cfg, Controller_get_cluster_by_name(cfg, cluster_name, answers, k), answers, k)

\* get_vms_in_resource_pool after the service call
VmsOfResourcePool(resource_pool, raw_vms) ==
    IF raw_vms.raised THEN Done(<<>>, resource_pool.requests \o raw_vms.requests)
    ELSE Done(VirtualMachines(raw_vms.val, None, resource_pool.val.v.resource_pool_id),
              resource_pool.requests \o raw_vms.requests)

\* a mutant: the VMs are fetched before the lookup result is looked at
VmsInResourcePoolFetchFirst(cfg, resource_pool, answers, k) ==
    IF resource_pool.raised THEN Done(<<>>, resource_pool.requests)
    ELSE IF ~resource_pool.val.set
    THEN Done(<<>>,
              resource_pool.requests
                  \o Service_get_virtual_machines(
                         cfg, None, None, answers[k + Len(resource_pool.requests)]).requests)
    ELSE VmsOfResourcePool(resource_pool,
                           Service_get_virtual_machines(
                               cfg, None, resource_pool.val.v.resource_pool_id,
                               answers[k + Len(resource_pool.requests)]))

\* get_vms_in_resource_pool after the lookup of the resource pool
VmsInResourcePool(cfg, resource_pool, answers, k) ==
    IF resource_pool.raised THEN Done(<<>>, resource_pool.requests)
    ELSE IF ~resource_pool.val.set THEN Done(<<>>, resource_pool.requests)
    ELSE VmsOfResourcePool(resource_pool,
                           Service_get_virtual_machines(
                               cfg, None, resource_pool.val.v.resource_pool_id,
                               answers[k + Len(resource_pool.requests)]))

\* VCenterController.get_vms_in_resource_pool
Controller_get_vms_in_resource_pool(cfg, resource_pool_name, answers, k) ==
    VmsInResourcePool(cfg,
                      Controller_get_resource_pool_by_name(cfg, resource_pool_name, answers, k),
                      answers, k)

\* the snapshot of the except branch of get_vcenter_status
ErrorSnapshot(cfg, failed, requests) ==
    Done([connection_status |-> "Error", host |-> cfg.host, error |-> failed.msg], requests)

\* a mutant: the counts of resource pools and of VMs change places
GatheredSwapped(cfg, connected, clusters, raw_resource_pools, raw_vms) ==
    IF clusters.raised
    THEN ErrorSnapshot(cfg, clusters, connected.requests \o clusters.requests)
    ELSE IF raw_resource_pools.raised
    THEN ErrorSnapshot(cfg, raw_resource_pools,
                       connected.requests \o clusters.requests \o raw_resource_pools.requests)
    ELSE IF raw_vms.raised
    THEN ErrorSnapshot(cfg, raw_vms,
                       connected.requests \o clusters.requests
                           \o raw_resource_pools.requests \o raw_vms.requests)
    ELSE Done([host |-> cfg.host,
               clusters_count |-> Len(clusters.val),
               resource_pools_count |-> Len(raw_vms.val),
               vms_count |-> Len(raw_resource_pools.val),
               connection_status |-> "Connected"],
              connected.requests \o clusters.requests
                  \o raw_resource_pools.requests \o raw_vms.requests)

\* get_vcenter_status after the three listings
Gathered(cfg, connected, clusters, raw_resource_pools, raw_vms) ==
    IF clusters.raised
    THEN ErrorSnapshot(cfg, clusters, connected.requests \o clusters.requests)
    ELSE IF raw_resource_pools.raised
    THEN ErrorSnapshot(cfg, raw_resource_pools,
                       connected.requests \o clusters.requests \o raw_resource_pools.requests)
    ELSE IF raw_vms.raised
    THEN ErrorSnapshot(cfg, raw_vms,
                       connected.requests \o clusters.requests
                           \o raw_resource_pools.requests \o raw_vms.requests)
    ELSE Done([host |-> cfg.host,
               clusters_count |-> Len(clusters.val),
               resource_pools_count |-> Len(raw_resource_pools.val),
               vms_count |-> Len(raw_vms.val),
               connection_status |-> "Connected"],
              connected.requests \o clusters.requests
                  \o raw_resource_pools.requests \o raw_vms.requests)

\* a mutant: the clusters the connection test listed are counted, the cluster
\* listing is not requested a second time
StatusAfterTestCountingTested(cfg, connected, answers, k) ==
    IF connected.raised THEN ErrorSnapshot(cfg, connected, connected.requests)
    ELSE IF ~connected.val
    THEN Done([connection_status |-> "Failed", host |-> cfg.host,
               error |-> "Cannot connect to vCenter"],
              connected.requests)
    ELSE Gathered(cfg, connected,
                  Done(connected.requests[1].returned.val, <<>>),
                  Service_get_resource_pools(cfg, None, answers[k + 1]),
                  Service_get_virtual_machines(cfg, None, None, answers[k + 2]))

\* get_vcenter_status after the connection test
StatusAfterTest(cfg, connected, answers, k) ==
    IF connected.raised THEN ErrorSnapshot(cfg, connected, connected.requests)
    ELSE IF ~connected.val
    THEN Done([connection_status |-> "Failed", host |-> cfg.host,
               error |-> "Cannot connect to vCenter"],
              connected.requests)
    ELSE Gathered(cfg, connected,
                  Controller_get_clusters(cfg, answers, k + 1),
                  Service_get_resource_pools(cfg, None, answers[k + 2]),
                  Service_get_virtual_machines(cfg, None, None, answers[k + 3]))

\* VCenterController.get_vcenter_status
Controller_get_vcenter_status(cfg, answers, k) ==
    StatusAfterTest(cfg, Service_test_connection(cfg, answers[k]), answers, k)

-----------------------------------------------------------------------------
(* MCPToolsView (main/views/mcp_tools.py).                                 *)
(*                                                                         *)
(* A tool takes what its call on the controller gave, a value or an        *)
(* exception, and yields what the tool gives to the protocol server.       *)

\* the loop over clusters of list_clusters
RECURSIVE ClusterLines(_)
ClusterLines(clusters) ==
    IF clusters = <<>> THEN ""
    ELSE "- " \o Str(Head(clusters).name) \o " (ID: " \o Str(Head(clusters).cluster_id)
             \o ")\n"
         \o ClusterLines(Tail(clusters))

\* the loop over vms of list_vms_in_cluster and list_vms_in_resource_pool
RECURSIVE VmLines(_)
VmLines(vms) ==
    IF vms = <<>> THEN ""
    ELSE "- " \o Str(Head(vms).name) \o " (Power: " \o Str(Head(vms).power_state) \o ")\n"
         \o VmLines(Tail(vms))

\* the loop over resource_pools of list_resource_pools
RECURSIVE ResourcePoolLines(_)
ResourcePoolLines(resource_pools) ==
    IF resource_pools = <<>> THEN ""
    ELSE "- " \o Str(Head(resource_pools).name)
         \o " (ID: " \o Str(Head(resource_pools).resource_pool_id) \o ")\n"
         \o ResourcePoolLines(Tail(resource_pools))

\* a mutant: the texts of the tags Failed and Error change places
FormatStatusTagsSwapped(status_data) ==
    IF snapshot_get(status_data, "connection_status") = Some("Failed")
    THEN "Error getting vCenter status: " \o dict_get(status_data, "error", "Unknown error")
    ELSE IF snapshot_get(status_data, "connection_status") = Some("Error")
    THEN "Error: " \o dict_get(status_data, "error", "Unknown error")
    ELSE "vCenter Status:\n"
         \o "- Connected to: " \o dict_get(status_data, "host", "Unknown") \o "\n"
         \o "- Clusters: " \o ToString(dict_get(status_data, "clusters_count", 0)) \o "\n"
         \o "- Resource Pools: "
         \o ToString(dict_get(status_data, "resource_pools_count", 0)) \o "\n"
         \o "- Virtual Machines: " \o ToString(dict_get(status_data, "vms_count", 0)) \o "\n"
         \o "- Connection: " \o dict_get(status_data, "connection_status", "Unknown") \o "\n"

\* MCPToolsView.format_status
format_status(status_data) ==
    IF snapshot_get(status_data, "connection_status") = Some("Failed")
    THEN "Error: " \o dict_get(status_data, "error", "Unknown error")
    ELSE IF snapshot_get(status_data, "connection_status") = Some("Error")
    THEN "Error getting vCenter status: " \o dict_get(status_data, "error", "Unknown error")
    ELSE "vCenter Status:\n"
         \o "- Connected to: " \o dict_get(status_data, "host", "Unknown") \o "\n"
         \o "- Clusters: " \o ToString(dict_get(status_data, "clusters_count", 0)) \o "\n"
         \o "- Resource Pools: "
         \o ToString(dict_get(status_data, "resource_pools_count", 0)) \o "\n"
         \o "- Virtual Machines: " \o ToString(dict_get(status_data, "vms_count", 0)) \o "\n"
         \o "- Connection: " \o dict_get(status_data, "connection_status", "Unknown") \o "\n"

\* MCPToolsView.format_cluster_list
format_cluster_list(clusters) ==
    IF clusters = <<>> THEN "No clusters found"
    ELSE "Clusters in vCenter:\n" \o ClusterLines(clusters)

\* a mutant: the header of the VM list lacks its newline
FormatVmListHeaderUnterminated(vms, context) ==
    IF vms = <<>> THEN "No virtual machines found in " \o context
    ELSE "Virtual machines in " \o context \o ":" \o VmLines(vms)

\* MCPToolsView.format_vm_list
format_vm_list(vms, context) ==
    IF vms = <<>> THEN "No virtual machines found in " \o context
    ELSE "Virtual machines in " \o context \o ":\n" \o VmLines(vms)

\* MCPToolsView.format_resource_pool_list
format_resource_pool_list(resource_pools, context) ==
    IF resource_pools = <<>> THEN "No resource pools found in " \o context
    ELSE "Resource pools in " \o context \o ":\n" \o ResourcePoolLines(resource_pools)

\* a mutant: the tool has no except branch, the exception leaves it
ToolListClustersUnguarded(clusters) ==
    IF clusters.raised THEN Raise(clusters.exc, clusters.msg)
    ELSE IF clusters.val = <<>> THEN Return("No clusters found in vCenter")
    ELSE Return("Clusters in vCenter:\n" \o ClusterLines(clusters.val))

\* the tool list_clusters
Tool_list_clusters(clusters) ==
    IF clusters.raised THEN Return("Error listing clusters: " \o clusters.msg)
    ELSE IF clusters.val = <<>> THEN Return("No clusters found in vCenter")
    ELSE Return("Clusters in vCenter:\n" \o ClusterLines(clusters.val))

\* the tool list_vms_in_cluster
Tool_list_vms_in_cluster(cluster_name, vms) ==
    IF vms.raised THEN Return("Error listing VMs in cluster: " \o vms.msg)
    ELSE IF vms.val = <<>>
    THEN Return("No virtual machines found in cluster '" \o cluster_name \o "'")
    ELSE Return("Virtual machines in cluster '" \o cluster_name \o "':\n" \o VmLines(vms.val))

\* the tool list_resource_pools
Tool_list_resource_pools(cluster_name, resource_pools) ==
    IF resource_pools.raised
    THEN Return("Error listing resource pools: " \o resource_pools.msg)
    ELSE IF resource_pools.val = <<>>
    THEN Return("No resource pools found in cluster '" \o cluster_name \o "'")
    ELSE Return("Resource pools in cluster '" \o cluster_name \o "':\n"
                \o ResourcePoolLines(resource_pools.val))

\* the tool list_vms_in_resource_pool
Tool_list_vms_in_resource_pool(resource_pool_name, vms) ==
    IF vms.raised THEN Return("Error listing VMs in resource pool: " \o vms.msg)
    ELSE IF vms.val = <<>>
    THEN Return("No virtual machines found in resource pool '" \o resource_pool_name \o "'")
    ELSE Return("Virtual machines in resource pool '" \o resource_pool_name \o "':\n"
                \o VmLines(vms.val))

\* the tool get_vcenter_status
Tool_get_vcenter_status(status_data) ==
    IF status_data.raised THEN Return("Error getting vCenter status: " \o status_data.msg)
    ELSE Return(format_status(status_data.val))

-----------------------------------------------------------------------------
(* Spec: the serving process.  create_mcp_server has resolved the config   *)
(* and built the controller and the view; a step is one tool invocation   *)
(* run to completion against the answers of the remote API, or the         *)
(* delivery of its text to the protocol server.                            *)

\* the environments the server is started in
ServeEnvs ==
    {Environment(Some(EnvHost), Some(EnvUser), Some(EnvPassword), None, None, VcapUnset),
     Environment(Some(EnvHostSlash), Some(EnvUser), Some(EnvPassword),
                 Some("false"), Some("60"), VcapUnset)}

\* the names the tools are asked about
ClusterNames == {"Prod", "prod", "Unknown"}
ResourcePoolNames == {"Gold", "gold", "Unknown"}

\* a controller call that fails for a reason of its own: MCPToolsView is built
\* over any controller object, and each tool guards its call
ControllerFailure == Raise("RuntimeError", "controller failure") @@ [requests |-> <<>>]

\* what one invocation leaves behind
Invocation(tool, arg, controller, returned, result) ==
    [tool |-> tool, arg |-> arg, controller |-> controller,
     requests |-> returned.requests, returned |-> returned, result |-> result]

Init ==
    /\ env \in ServeEnvs
    /\ cfgCall = [op |-> "get_vcenter_config", result |-> get_vcenter_config(env)]
    /\ ~cfgCall.result.raised
    /\ config = cfgCall.result.val
    /\ call = Idle
    /\ server = Serving

\* what an invocation of each tool leaves behind, given what the controller gave
Invoked_list_clusters(controller, clusters) ==
    Invocation("list_clusters", None, controller, clusters, Tool_list_clusters(clusters))

Invoked_list_vms_in_cluster(cluster_name, controller, vms) ==
    Invocation("list_vms_in_cluster", Some(cluster_name), controller, vms,
               Tool_list_vms_in_cluster(cluster_name, vms))

Invoked_list_resource_pools(cluster_name, controller, resource_pools) ==
    Invocation("list_resource_pools", Some(cluster_name), controller, resource_pools,
               Tool_list_resource_pools(cluster_name, resource_pools))

Invoked_list_vms_in_resource_pool(resource_pool_name, controller, vms) ==
    Invocation("list_vms_in_resource_pool", Some(resource_pool_name), controller, vms,
               Tool_list_vms_in_resource_pool(resource_pool_name, vms))

Invoked_get_vcenter_status(controller, status_data) ==
    Invocation("get_vcenter_status", None, controller, status_data,
               Tool_get_vcenter_status(status_data))

ListClusters ==
    /\ server.pc = "serving"
    /\ call = Idle
    /\ call' \in
          {Invoked_list_clusters("failing", ControllerFailure)}
          \cup {Invoked_list_clusters("real", Controller_get_clusters(config, <<a1>>, 1)) :
                   a1 \in Answers(RawClusters, MaxRecords)}
    /\ UNCHANGED <<env, cfgCall, config, server>>

ListVmsInCluster ==
    /\ server.pc = "serving"
    /\ call = Idle
    /\ call' \in
          {Invoked_list_vms_in_cluster(cluster_name, "failing", ControllerFailure) :
              cluster_name \in ClusterNames}
          \cup {Invoked_list_vms_in_cluster(
                    cluster_name, "real",
                    Controller_get_vms_in_cluster(config, cluster_name, <<a1, a2>>, 1)) :
                   cluster_name \in ClusterNames,
                   a1 \in Answers(RawClusters, MaxRecords),
                   a2 \in Answers(RawVms, MaxRecords)}
    /\ UNCHANGED <<env, cfgCall, config, server>>

ListResourcePools ==
    /\ server.pc = "serving"
    /\ call = Idle
    /\ call' \in
          {Invoked_list_resource_pools(cluster_name, "failing", ControllerFailure) :
              cluster_name \in ClusterNames}
          \cup {Invoked_list_resource_pools(
                    cluster_name, "real",
                    Controller_get_resource_pools_in_cluster(config, cluster_name,
                                                             <<a1, a2>>, 1)) :
                   cluster_name \in ClusterNames,
                   a1 \in Answers(RawClusters, MaxRecords),
                   a2 \in Answers(RawResourcePools, MaxRecords)}
    /\ UNCHANGED <<env, cfgCall, config, server>>

ListVmsInResourcePool ==
    /\ server.pc = "serving"
    /\ call = Idle
    /\ call' \in
          {Invoked_list_vms_in_resource_pool(resource_pool_name, "failing",
                                             ControllerFailure) :
              resource_pool_name \in ResourcePoolNames}
          \cup {Invoked_list_vms_in_resource_pool(
                    resource_pool_name, "real",
                    Controller_get_vms_in_resource_pool(config, resource_pool_name,
                                                        <<a1, a2>>, 1)) :
                   resource_pool_name \in ResourcePoolNames,
                   a1 \in Answers(RawResourcePools, MaxRecords),
                   a2 \in Answers(RawVms, MaxRecords)}
    /\ UNCHANGED <<env, cfgCall, config, server>>

GetVcenterStatus ==
    /\ server.pc = "serving"
    /\ call = Idle
    /\ call' \in
          {Invoked_get_vcenter_status("failing", ControllerFailure)}
          \cup {Invoked_get_vcenter_status(
                    "real", Controller_get_vcenter_status(config, <<a1, a2, a3, a4>>, 1)) :
                   a1 \in CountedAnswers(RawProd, MaxCount),
                   a2 \in CountedAnswers(RawProd, MaxCount),
                   a3 \in CountedAnswers(RawGold, MaxCount),
                   a4 \in CountedAnswers(RawWeb, MaxCount)}
    /\ UNCHANGED <<env, cfgCall, config, server>>

\* the protocol server takes the returned text; the view is ready for the next call
Deliver ==
    /\ server.pc = "serving"
    /\ call # Idle
    /\ call' = Idle
    /\ UNCHANGED <<env, cfgCall, config, server>>

Next ==
    \/ ListClusters
    \/ ListVmsInCluster
    \/ ListResourcePools
    \/ ListVmsInResourcePool
    \/ GetVcenterStatus
    \/ Deliver

Spec == Init /\ [][Next]_vars

-----------------------------------------------------------------------------
(* SpecMain: the server process from main to its exit.  A step is one      *)
(* statement of main_async or of create_mcp_server, the handling of an     *)
(* exception by main_async, or, once the transport runs, a step of Spec.   *)

\* the environments main is started in: two that resolve, from the variables
\* and from the binding, and two that do not
MainEnvs ==
    {Environment(Some(EnvHost), Some(EnvUser), Some(EnvPassword), None, None, VcapUnset),
     Environment(None, None, None, None, None, VcapJson(Document(<<SvcVcenter>>, <<>>))),
     Environment(None, None, None, None, None, VcapUnset),
     Environment(Some(EnvHost), None, Some(EnvPassword), None, None, VcapMalformed)}

\* the values of PORT
PortValues == {None, Some("8080"), Some("http")}

MainInit ==
    /\ env \in MainEnvs
    /\ cfgCall = NoCall
    /\ config = NoConfig
    /\ call = Idle
    /\ server = Starting

\* main_async: port = int(os.getenv('PORT', 8080)), host = os.getenv('HOST', ...)
ReadPort ==
    /\ server.pc = "main_async"
    /\ \E port \in PortValues :
          server' = [server EXCEPT
                        !.pc = IF port.set /\ ParseInt(port.v).raised
                               THEN "raised" ELSE "create_mcp_server"]
    /\ UNCHANGED <<env, cfgCall, config, call>>

\* a mutant: a failed resolution is swallowed and an empty config stands in
ResolveConfigSwallowed ==
    /\ server.pc = "create_mcp_server"
    /\ cfgCall' = [op |-> "get_vcenter_config", result |-> get_vcenter_config(env)]
    /\ IF cfgCall'.result.raised
       THEN /\ config' = VCenterConfig("", "", "", TRUE, DEFAULT_TIMEOUT)
            /\ server' = [server EXCEPT !.pc = "controller", !.resolution = "failed"]
       ELSE /\ config' = cfgCall'.result.val
            /\ server' = [server EXCEPT !.pc = "controller", !.resolution = "ok"]
    /\ UNCHANGED <<env, call>>

\* create_mcp_server: config = ConfigManager().get_vcenter_config(); its
\* exception is logged and raised again
ResolveConfig ==
    /\ server.pc = "create_mcp_server"
    /\ cfgCall' = [op |-> "get_vcenter_config", result |-> get_vcenter_config(env)]
    /\ IF cfgCall'.result.raised
       THEN /\ config' = config
            /\ server' = [server EXCEPT !.pc = "raised", !.resolution = "failed"]
       ELSE /\ config' = cfgCall'.result.val
            /\ server' = [server EXCEPT !.pc = "controller", !.resolution = "ok"]
    /\ UNCHANGED <<env, call>>

\* controller = VCenterController(config)
InitController ==
    /\ server.pc = "controller"
    /\ server' = [server EXCEPT !.pc = "view", !.controller = TRUE]
    /\ UNCHANGED <<env, cfgCall, config, call>>

\* view = MCPToolsView(controller)
InitView ==
    /\ server.pc = "view"
    /\ server' = [server EXCEPT !.pc = "app", !.view = TRUE]
    /\ UNCHANGED <<env, cfgCall, config, call>>

\* app = FastMCP("vcenter-mcp")
CreateApp ==
    /\ server.pc = "app"
    /\ server' = [server EXCEPT !.pc = "health", !.app = TRUE]
    /\ UNCHANGED <<env, cfgCall, config, call>>

\* @app.custom_route("/health", methods=["GET"])
AddHealthRoute ==
    /\ server.pc = "health"
    /\ server' = [server EXCEPT !.pc = "tools", !.health = TRUE]
    /\ UNCHANGED <<env, cfgCall, config, call>>

\* view.register_tools(app); return app
RegisterTools ==
    /\ server.pc = "tools"
    /\ server' = [server EXCEPT !.pc = "run", !.tools = TRUE]
    /\ UNCHANGED <<env, cfgCall, config, call>>

\* await app.run_http_async(...): the transport starts, or fails to
RunHttp ==
    /\ server.pc = "run"
    /\ \/ server' = [server EXCEPT !.pc = "serving", !.transport = TRUE]
       \/ server' = [server EXCEPT !.pc = "raised"]
    /\ UNCHANGED <<env, cfgCall, config, call>>

\* main_async, except Exception: sys.exit(1); main lets the SystemExit pass
ExitOnException ==
    /\ server.pc = "raised"
    /\ server' = [server EXCEPT !.pc = "exited", !.exit = Some(1)]
    /\ UNCHANGED <<env, cfgCall, config, call>>

\* main_async, except KeyboardInterrupt: sys.exit(0)
ExitOnInterrupt ==
    /\ server.pc = "serving"
    /\ call = Idle
    /\ server' = [server EXCEPT !.pc = "exited", !.exit = Some(0)]
    /\ UNCHANGED <<env, cfgCall, config, call>>

MainNext ==
    \/ ReadPort
    \/ ResolveConfig
    \/ InitController
    \/ InitView
    \/ CreateApp
    \/ AddHealthRoute
    \/ RegisterTools
    \/ RunHttp
    \/ ExitOnException
    \/ ExitOnInterrupt
    \/ ListClusters
    \/ ListVmsInCluster
    \/ ListResourcePools
    \/ ListVmsInResourcePool
    \/ GetVcenterStatus
    \/ Deliver

SpecMain == MainInit /\ [][MainNext]_vars

-----------------------------------------------------------------------------
(* SpecController: calls on a VCenterController built over the resolved    *)
(* config.  A step is one operation of the controller run to completion    *)
(* against the answers of the remote API, or its return to the caller.     *)

\* the controller between calls
Ready == [op |-> "none"]

\* what one call on the controller leaves behind
ControllerCall(op, arg, returned) ==
    [op |-> op, arg |-> arg, requests |-> returned.requests, returned |-> returned]

ControllerInit ==
    /\ env \in ServeEnvs
    /\ cfgCall = [op |-> "get_vcenter_config", result |-> get_vcenter_config(env)]
    /\ ~cfgCall.result.raised
    /\ config = cfgCall.result.val
    /\ call = Ready
    /\ server = NoServer

Call_get_clusters ==
    /\ call = Ready
    /\ call' \in {ControllerCall("get_clusters", None,
                                  Controller_get_clusters(config, <<a1>>, 1)) :
                     a1 \in Answers(RawClusters, MaxRecords)}
    /\ UNCHANGED <<env, cfgCall, config, server>>

Call_get_cluster_by_name ==
    /\ call = Ready
    /\ call' \in {ControllerCall("get_cluster_by_name", Some(cluster_name),
                                  Controller_get_cluster_by_name(config, cluster_name,
                                                                 <<a1>>, 1)) :
                     cluster_name \in ClusterNames,
                     a1 \in Answers(RawClusters, MaxRecords)}
    /\ UNCHANGED <<env, cfgCall, config, server>>

Call_get_resource_pools_in_cluster ==
    /\ call = Ready
    /\ call' \in {ControllerCall("get_resource_pools_in_cluster", Some(cluster_name),
                                  Controller_get_resource_pools_in_cluster(
                                      config, cluster_name, <<a1, a2>>, 1)) :
                     cluster_name \in ClusterNames,
                     a1 \in Answers(RawClusters, MaxRecords),
                     a2 \in Answers(RawResourcePools, MaxRecords)}
    /\ UNCHANGED <<env, cfgCall, config, server>>

Call_get_resource_pool_by_name ==
    /\ call = Ready
    /\ call' \in {ControllerCall("get_resource_pool_by_name", Some(resource_pool_name),
                                  Controller_get_resource_pool_by_name(
                                      config, resource_pool_name, <<a1>>, 1)) :
                     resource_pool_name \in ResourcePoolNames,
                     a1 \in Answers(RawResourcePools, MaxRecords)}
    /\ UNCHANGED <<env, cfgCall, config, server>>

Call_get_vms_in_cluster ==
    /\ call = Ready
    /\ call' \in {ControllerCall("get_vms_in_cluster", Some(cluster_name),
                                  Controller_get_vms_in_cluster(config, cluster_name,
                                                                <<a1, a2>>, 1)) :
                     cluster_name \in ClusterNames,
                     a1 \in Answers(RawClusters, MaxRecords),
                     a2 \in Answers(RawVms, MaxRecords)}
    /\ UNCHANGED <<env, cfgCall, config, server>>

Call_get_vms_in_resource_pool ==
    /\ call = Ready
    /\ call' \in {ControllerCall("get_vms_in_resource_pool", Some(resource_pool_name),
                                  Controller_get_vms_in_resource_pool(
                                      config, resource_pool_name, <<a1, a2>>, 1)) :
                     resource_pool_name \in ResourcePoolNames,
                     a1 \in Answers(RawResourcePools, MaxRecords),
                     a2 \in Answers(RawVms, MaxRecords)}
    /\ UNCHANGED <<env, cfgCall, config, server>>

Call_get_vcenter_status ==
    /\ call = Ready
    /\ call' \in {ControllerCall("get_vcenter_status", None,
                                  Controller_get_vcenter_status(config,
                                                                <<a1, a2, a3, a4>>, 1)) :
                     a1 \in CountedAnswers(RawProd, MaxCount),
                     a2 \in CountedAnswers(RawProd, MaxCount),
                     a3 \in CountedAnswers(RawGold, MaxCount),
                     a4 \in CountedAnswers(RawWeb, MaxCount)}
    /\ UNCHANGED <<env, cfgCall, config, server>>

\* the connection test of the service the controller is built over
Call_test_connection ==
    /\ call = Ready
    /\ call' \in {ControllerCall("test_connection", None,
                                  Service_test_connection(config, a1)) :
                     a1 \in Answers(RawClusters, MaxRecords)}
    /\ UNCHANGED <<env, cfgCall, config, server>>

\* the call returns to its caller
ControllerReturn ==
    /\ call # Ready
    /\ call' = Ready
    /\ UNCHANGED <<env, cfgCall, config, server>>

ControllerNext ==
    \/ Call_get_clusters
    \/ Call_get_cluster_by_name
    \/ Call_get_resource_pools_in_cluster
    \/ Call_get_resource_pool_by_name
    \/ Call_get_vms_in_cluster
    \/ Call_get_vms_in_resource_pool
    \/ Call_get_vcenter_status
    \/ Call_test_connection
    \/ ControllerReturn

SpecController == ControllerInit /\ [][ControllerNext]_vars

-----------------------------------------------------------------------------
(* SpecView: calls on the formatters of an MCPToolsView.  A step is one    *)
(* formatter applied to a list of entities or to a snapshot, or its return.*)

\* the entities the formatters are given
ClusterEntities ==
    {Cluster(Some("domain-c1"), Some("Prod")),
     Cluster(Some("Unknown"), Some("Unknown")),
     Cluster(Some("domain-c3"), None)}

VmEntities ==
    {VirtualMachine(Some("vm-1"), Some("web"), Some("POWERED_ON"), Some("domain-c1"), None),
     VirtualMachine(Some("vm-2"), Some("db"), Some("POWERED_OFF"), None, Some("resgroup-1")),
     VirtualMachine(Some("Unknown"), Some("Unknown"), Some("Unknown"), None, None)}

ResourcePoolEntities ==
    {ResourcePool(Some("resgroup-1"), Some("Gold"), Some("domain-c1")),
     ResourcePool(Some("resgroup-2"), Some("Unknown"), None),
     ResourcePool(Some("resgroup-3"), Some("Silver"), None)}

\* the contexts the list formatters are given
Contexts == {"cluster 'Prod'", "resource pool 'Gold'", ""}

\* the snapshots format_status is given: the three get_vcenter_status makes, and
\* dicts that lack keys
Snapshots ==
    {[connection_status |-> "Failed", host |-> h, error |-> "Cannot connect to vCenter"] :
        h \in {EnvHost, EnvHostSlash}}
    \cup {[connection_status |-> "Error", host |-> EnvHost, error |-> m] :
             m \in {"boom", ""}}
    \cup {[connection_status |-> "Failed", host |-> EnvHost],
          [connection_status |-> "Error"],
          [host |-> EnvHost],
          [connection_status |-> "Degraded", clusters_count |-> 1]}
    \cup {[host |-> h, clusters_count |-> c, resource_pools_count |-> r, vms_count |-> v,
           connection_status |-> "Connected"] :
             h \in {EnvHost, EnvHostSlash}, c \in 0..MaxCount, r \in 0..MaxCount,
             v \in 0..MaxCount}

\* what one call on a formatter leaves behind
FormatterCall(op, arg, context, result) ==
    [op |-> op, arg |-> arg, context |-> context, result |-> result]

ViewInit ==
    /\ env \in ServeEnvs
    /\ cfgCall = [op |-> "get_vcenter_config", result |-> get_vcenter_config(env)]
    /\ ~cfgCall.result.raised
    /\ config = cfgCall.result.val
    /\ call = Ready
    /\ server = NoServer

Call_format_cluster_list ==
    /\ call = Ready
    /\ \E clusters \in Listings(ClusterEntities, MaxRecords) :
          call' = FormatterCall("format_cluster_list", clusters, None,
                                format_cluster_list(clusters))
    /\ UNCHANGED <<env, cfgCall, config, server>>

Call_format_vm_list ==
    /\ call = Ready
    /\ \E vms \in Listings(VmEntities, MaxRecords), context \in Contexts :
          call' = FormatterCall("format_vm_list", vms, Some(context),
                                format_vm_list(vms, context))
    /\ UNCHANGED <<env, cfgCall, config, server>>

Call_format_resource_pool_list ==
    /\ call = Ready
    /\ \E resource_pools \in Listings(ResourcePoolEntities, MaxRecords),
          context \in Contexts :
          call' = FormatterCall("format_resource_pool_list", resource_pools, Some(context),
                                format_resource_pool_list(resource_pools, context))
    /\ UNCHANGED <<env, cfgCall, config, server>>

Call_format_status ==
    /\ call = Ready
    /\ \E status_data \in Snapshots :
          call' = FormatterCall("format_status", status_data, None,
                                format_status(status_data))
    /\ UNCHANGED <<env, cfgCall, config, server>>

\* the formatter returns its text
ViewReturn ==
    /\ call # Ready
    /\ call' = Ready
    /\ UNCHANGED <<env, cfgCall, config, server>>

ViewNext ==
    \/ Call_format_cluster_list
    \/ Call_format_vm_list
    \/ Call_format_resource_pool_list
    \/ Call_format_status
    \/ ViewReturn

SpecView == ViewInit /\ [][ViewNext]_vars

-----------------------------------------------------------------------------
(* SpecConcurrent: the protocol server dispatches several invocations at   *)
(* once.  Every tool is an async function without an await: once the event *)
(* loop runs its body, the body runs to its return.  call maps each slot   *)
(* of the protocol server to the invocation it holds; config is the one    *)
(* object the invocations share.                                           *)

Slots == 1..MaxInvocations

Free == [pc |-> "free"]

\* the invocations the protocol server dispatches, each with the answers the
\* remote API gives to its requests
Dispatched ==
    {[tool |-> "list_clusters", arg |-> None, answers |-> <<a>>] :
        a \in {Ok(<<RawProd>>), NetworkError}}
    \cup {[tool |-> "list_vms_in_cluster", arg |-> Some("Prod"),
           answers |-> <<Ok(<<RawProd>>), a>>] : a \in {Ok(<<RawWeb>>), HttpError}}
    \cup {[tool |-> "list_resource_pools", arg |-> Some("Prod"),
           answers |-> <<Ok(<<RawProd>>), a>>] : a \in {Ok(<<RawGold>>), BadJson}}
    \cup {[tool |-> "list_vms_in_resource_pool", arg |-> Some("Gold"),
           answers |-> <<Ok(<<RawGold>>), a>>] : a \in {Ok(<<RawDb>>), NetworkError}}
    \cup {[tool |-> "get_vcenter_status", arg |-> None,
           answers |-> <<a, Ok(<<RawProd>>), Ok(<<RawGold>>), Ok(<<RawWeb>>)>>] :
              a \in {Ok(<<RawProd>>), NetworkError}}

\* the body of a tool, run over the controller built on cfg
RunTool(cfg, tool, arg, answers) ==
    CASE tool = "list_clusters" ->
           Invoked_list_clusters("real", Controller_get_clusters(cfg, answers, 1))
      [] tool = "list_vms_in_cluster" ->
           Invoked_list_vms_in_cluster(
               arg.v, "real", Controller_get_vms_in_cluster(cfg, arg.v, answers, 1))
      [] tool = "list_resource_pools" ->
           Invoked_list_resource_pools(
               arg.v, "real",
               Controller_get_resource_pools_in_cluster(cfg, arg.v, answers, 1))
      [] tool = "list_vms_in_resource_pool" ->
           Invoked_list_vms_in_resource_pool(
               arg.v, "real", Controller_get_vms_in_resource_pool(cfg, arg.v, answers, 1))
      [] tool = "get_vcenter_status" ->
           Invoked_get_vcenter_status("real", Controller_get_vcenter_status(cfg, answers, 1))

ConcurrentInit ==
    /\ env \in ServeEnvs
    /\ cfgCall = [op |-> "get_vcenter_config", result |-> get_vcenter_config(env)]
    /\ ~cfgCall.result.raised
    /\ config = cfgCall.result.val
    /\ call = [slot \in Slots |-> Free]
    /\ server = Serving

\* the protocol server takes a tool call and schedules the tool's coroutine
Dispatch(slot) ==
    /\ server.pc = "serving"
    /\ call[slot] = Free
    /\ \E d \in Dispatched : call' = [call EXCEPT ![slot] = d @@ [pc |-> "scheduled"]]
    /\ UNCHANGED <<env, cfgCall, config, server>>

\* a mutant: the tool body writes the host it requested from, the slash
\* stripped, back into the shared configuration
RunInvocationNormalisingHost(slot) ==
    /\ call[slot] # Free
    /\ call[slot].pc = "scheduled"
    /\ call' = [call EXCEPT ![slot] =
                    RunTool(config, call[slot].tool, call[slot].arg, call[slot].answers)
                        @@ [pc |-> "returned", answers |-> call[slot].answers]]
    /\ config' = [config EXCEPT !.host = RStripSlash(config.host)]
    /\ UNCHANGED <<env, cfgCall, server>>

\* the event loop runs the body of a scheduled tool, which reads the shared
\* configuration and writes nothing but its own locals
RunInvocation(slot) ==
    /\ call[slot] # Free
    /\ call[slot].pc = "scheduled"
    /\ call' = [call EXCEPT ![slot] =
                    RunTool(config, call[slot].tool, call[slot].arg, call[slot].answers)
                        @@ [pc |-> "returned", answers |-> call[slot].answers]]
    /\ UNCHANGED <<env, cfgCall, config, server>>

\* the protocol server sends the returned text; the slot is free again
DeliverResult(slot) ==
    /\ call[slot] # Free
    /\ call[slot].pc = "returned"
    /\ call' = [call EXCEPT ![slot] = Free]
    /\ UNCHANGED <<env, cfgCall, config, server>>

ConcurrentNext ==
    \/ \E slot \in Slots : Dispatch(slot)
    \/ \E slot \in Slots : RunInvocation(slot)
    \/ \E slot \in Slots : DeliverResult(slot)

SpecConcurrent == ConcurrentInit /\ [][ConcurrentNext]_vars

-----------------------------------------------------------------------------
(* Claims about the serving process, checked under Spec.                   *)

\* a network error or a non-2xx status
EndpointFailure(answer) == answer.kind \in {"network_error", "http_error"}

\* an invocation on the real controller has run and its text is not yet delivered
Served(tool) == call # Idle /\ call.tool = tool /\ call.controller = "real"

\* every request of the invocation on the cluster endpoint failed
ClusterEndpointFails ==
    /\ \E i \in 1..Len(call.requests) : call.requests[i].op = "get_clusters"
    /\ \A i \in 1..Len(call.requests) :
          call.requests[i].op = "get_clusters" => EndpointFailure(call.requests[i].answer)

\* C1: when the cluster endpoint fails, with a network error or a non-2xx status,
\* get_vcenter_status returns a snapshot whose connection_status is "Failed", whose
\* host is populated, and which holds none of the three counts.
C1_FailedWhenClusterEndpointFails ==
    (Served("get_vcenter_status") /\ ClusterEndpointFails)
        => /\ ~call.returned.raised
           /\ snapshot_get(call.returned.val, "connection_status") = Some("Failed")
           /\ dict_get(call.returned.val, "host", "") # ""
           /\ DOMAIN call.returned.val
                  \cap {"clusters_count", "resource_pools_count", "vms_count"} = {}

\* a Python list
IsList(v) == DOMAIN v = 1..Len(v)

\* the operations of the service that list
ListingOperations == {"get_clusters", "get_resource_pools", "get_virtual_machines"}

Tools ==
    {"list_clusters", "list_vms_in_cluster", "list_resource_pools",
     "list_vms_in_resource_pool", "get_vcenter_status"}

\* C3: each of the five tools returns a string for every argument and for every
\* outcome of the remote API and of the controller; no exception leaves a tool.
C3_ToolsReturnStrings ==
    call # Idle =>
        /\ call.tool \in Tools
        /\ ~call.result.raised
        /\ call.result.val \in STRING

\* the controller raised under list_clusters and the tool returned its error text
C3_Witness ==
    /\ call # Idle
    /\ call.tool = "list_clusters"
    /\ call.controller = "failing"
    /\ call.returned.raised
    /\ call.result = Return("Error listing clusters: controller failure")

\* the text of a tool for an argument when every request is answered with a
\* well-formed empty listing
HealthyEmptyText(tool, arg) ==
    CASE tool = "list_clusters" ->
             Tool_list_clusters(Controller_get_clusters(config, <<Ok(<<>>)>>, 1)).val
      [] tool = "list_vms_in_cluster" ->
             Tool_list_vms_in_cluster(
                 arg.v, Controller_get_vms_in_cluster(config, arg.v,
                                                      <<Ok(<<>>), Ok(<<>>)>>, 1)).val
      [] tool = "list_resource_pools" ->
             Tool_list_resource_pools(
                 arg.v, Controller_get_resource_pools_in_cluster(
                            config, arg.v, <<Ok(<<>>), Ok(<<>>)>>, 1)).val
      [] tool = "list_vms_in_resource_pool" ->
             Tool_list_vms_in_resource_pool(
                 arg.v, Controller_get_vms_in_resource_pool(
                            config, arg.v, <<Ok(<<>>), Ok(<<>>)>>, 1)).val
      [] tool = "get_vcenter_status" ->
             Tool_get_vcenter_status(
                 Controller_get_vcenter_status(
                     config, <<Ok(<<>>), Ok(<<>>), Ok(<<>>), Ok(<<>>)>>, 1)).val

\* C4: for every tool, the text returned when a request to the remote API failed
\* differs from the text returned when the remote API answered with an empty
\* result.
C4_FailureTextDiffers ==
    (/\ call # Idle
     /\ call.controller = "real"
     /\ \E i \in 1..Len(call.requests) : call.requests[i].answer \in Failures)
        => call.result.val # HealthyEmptyText(call.tool, call.arg)

-----------------------------------------------------------------------------
(* Claims about the configuration resolver, checked under SpecConfig.      *)

\* VCENTER_HOST, VCENTER_USERNAME and VCENTER_PASSWORD are all set and non-empty
EnvTripleSet ==
    /\ env.VCENTER_HOST.set /\ env.VCENTER_HOST.v # ""
    /\ env.VCENTER_USERNAME.set /\ env.VCENTER_USERNAME.v # ""
    /\ env.VCENTER_PASSWORD.set /\ env.VCENTER_PASSWORD.v # ""

\* the descriptors of the bound document in document order, none when
\* VCAP_SERVICES holds no JSON object
BoundServices ==
    LET v == env.VCAP_SERVICES
    IN  IF v.set /\ ~v.empty /\ ~v.json.raised /\ v.json.val.type = "object"
        THEN ServicesInOrder(v.json.val.items)
        ELSE <<>>

FieldText(field) == IF field.has /\ ~field.null THEN field.v ELSE ""

\* the name or the label of d contains a product keyword, whatever the case
HasKeyword(d) ==
    /\ d.type = "object"
    /\ \E k \in {"vcenter", "vmware", "esxi"} :
          \/ Contains(k, Lower(FieldText(d.name)))
          \/ Contains(k, Lower(FieldText(d.label)))

\* name and label of d can be read and lower-cased
Readable(d) ==
    /\ d.type = "object"
    /\ ~(d.name.has /\ d.name.null)
    /\ ~(d.label.has /\ d.label.null)

CompleteCredentials(d) ==
    /\ d.credentials.has
    /\ Truthy(d.credentials.host)
    /\ Truthy(d.credentials.username)
    /\ Truthy(d.credentials.password)

CredentialsOf(d) ==
    VCenterCredentials(d.credentials.host.v, d.credentials.username.v, d.credentials.password.v)

\* the binding holds a keyword-matching descriptor with a complete triple, and
\* every descriptor before it can be read
BindingYields ==
    \E i \in 1..Len(BoundServices) :
        /\ HasKeyword(BoundServices[i])
        /\ CompleteCredentials(BoundServices[i])
        /\ \A j \in 1..i : Readable(BoundServices[j])

\* C5: whenever the three environment variables are all non-empty, the resolved
\* host, username and password are exactly those three values, whatever
\* VCAP_SERVICES holds.
C5_EnvironmentTakesPriority ==
    (cfgCall.op \in {"get_vcenter_config", "get_vcenter_credentials"} /\ EnvTripleSet)
        => /\ ~cfgCall.result.raised
           /\ cfgCall.result.val.host = env.VCENTER_HOST.v
           /\ cfgCall.result.val.username = env.VCENTER_USERNAME.v
           /\ cfgCall.result.val.password = env.VCENTER_PASSWORD.v

\* the environment triple is complete and a binding offers another complete triple
C5_Witness ==
    /\ cfgCall.op = "get_vcenter_config"
    /\ EnvTripleSet
    /\ BindingYields
    /\ cfgCall.result.val.host = env.VCENTER_HOST.v

\* C6: get_vcenter_credentials returns a triple whose three fields are non-empty
\* or raises the ValueError "vCenter credentials not found ..."; it raises
\* exactly when neither the environment nor the binding yields a complete triple.
C6_CompleteOrError ==
    cfgCall.op = "get_vcenter_credentials"
        => LET r == cfgCall.result
           IN  /\ r.raised => /\ r.exc = "ValueError"
                              /\ StartsWith(r.msg, "vCenter credentials not found")
               /\ ~r.raised => /\ r.val.host # ""
                               /\ r.val.username # ""
                               /\ r.val.password # ""
               /\ r.raised <=> (~EnvTripleSet /\ ~BindingYields)

\* a partly filled environment and a binding without usable credentials: the error
C6_Witness ==
    /\ cfgCall.op = "get_vcenter_credentials"
    /\ Truthy(env.VCENTER_HOST)
    /\ ~Truthy(env.VCENTER_PASSWORD)
    /\ Len(BoundServices) > 0
    /\ cfgCall.result.raised

\* C7: with valid credentials get_vcenter_config does not raise; the timeout is
\* 30 when VCENTER_TIMEOUT is unset or is no integer text, and the integer
\* itself when it is an integer text.
C7_TimeoutFallback ==
    (cfgCall.op = "get_vcenter_config" /\ (EnvTripleSet \/ BindingYields))
        => /\ ~cfgCall.result.raised
           /\ ~env.VCENTER_TIMEOUT.set => cfgCall.result.val.timeout = 30
           /\ \A t \in NonIntegerTexts :
                  env.VCENTER_TIMEOUT = Some(t) => cfgCall.result.val.timeout = 30
           /\ \A t \in IntegerTexts :
                  env.VCENTER_TIMEOUT = Some(t[1]) => cfgCall.result.val.timeout = t[2]

\* VCENTER_TIMEOUT is "invalid" and the config carries 30
C7_Witness ==
    /\ cfgCall.op = "get_vcenter_config"
    /\ env.VCENTER_TIMEOUT = Some("invalid")
    /\ ~cfgCall.result.raised
    /\ cfgCall.result.val.timeout = 30

\* C8: the timeout of every config get_vcenter_config produces is a positive
\* integer, whatever VCENTER_TIMEOUT holds.
C8_TimeoutPositive ==
    (cfgCall.op = "get_vcenter_config" /\ ~cfgCall.result.raised)
        => cfgCall.result.val.timeout > 0

C10_KeywordFilter ==
    cfgCall.op = "_get_credentials_from_service_binding"
        => LET r == cfgCall.result
           IN  /\ r.set => \E i \in 1..Len(BoundServices) :
                               /\ HasKeyword(BoundServices[i])
                               /\ CompleteCredentials(BoundServices[i])
                               /\ r.v = CredentialsOf(BoundServices[i])
               /\ (\A i \in 1..Len(BoundServices) : ~HasKeyword(BoundServices[i])) => ~r.set

\* a descriptor named "my-mysql" with a full triple sits alone in the bucket
\* "vcenter", and the binding yields nothing
C10_Witness ==
    /\ cfgCall.op = "_get_credentials_from_service_binding"
    /\ BoundServices = <<SvcMysql>>
    /\ env.VCAP_SERVICES.json.val.items[1].key = "vcenter"
    /\ ~cfgCall.result.set

-----------------------------------------------------------------------------
(* Claims about the controller, checked under SpecController.              *)

\* a call of the operation has run and has not yet returned
Called(op) == call # Ready /\ call.op = op

\* the clusters get_clusters makes of the listing the lookup request was answered with
ListedClusters == Controller_get_clusters(config, <<call.requests[1].answer>>, 1).val

\* C11: get_cluster_by_name(n) returns the first cluster, in listing order, whose
\* name equals n exactly (case-sensitive, untrimmed, whole), and None when no
\* cluster of the listing has that name; "Prod" in the listing does not answer
\* the query "prod".
C11_FirstExactMatch ==
    Called("get_cluster_by_name") =>
        /\ ~call.returned.raised
        /\ call.returned.val.set =>
              \E i \in 1..Len(ListedClusters) :
                  /\ call.returned.val.v = ListedClusters[i]
                  /\ ListedClusters[i].name = call.arg
                  /\ \A j \in 1..(i - 1) : ListedClusters[j].name # call.arg
        /\ ~call.returned.val.set =>
              \A i \in 1..Len(ListedClusters) : ListedClusters[i].name # call.arg
        /\ (call.arg = Some("prod")
              /\ \A i \in 1..Len(ListedClusters) : ListedClusters[i].name # Some("prod"))
               => ~call.returned.val.set

\* two clusters named "Prod" are listed and the query "Prod" gets the first
C11_Witness ==
    /\ Called("get_cluster_by_name")
    /\ call.arg = Some("Prod")
    /\ call.requests[1].answer = Ok(<<RawProdTwin, RawProd>>)
    /\ call.returned.val = Some(Cluster(Some("domain-c2"), Some("Prod")))

\* the raw resource pools the lookup request of the call was answered with
ListedRawResourcePools == call.requests[1].returned.val

\* no cluster of the listing carries the name asked for
NoClusterNamed ==
    \A i \in 1..Len(ListedClusters) : ListedClusters[i].name # call.arg

\* no resource pool of the listing carries the name asked for
NoResourcePoolNamed ==
    \A i \in 1..Len(ListedRawResourcePools) :
        dict_get_opt(ListedRawResourcePools[i], "name") # call.arg

\* the call returned the empty list after its lookup request and no other request
OnlyLookup(lookup) ==
    /\ call.returned = Done(<<>>, call.requests)
    /\ Len(call.requests) = 1
    /\ call.requests[1].op = lookup

\* C12: when the name given to a scoped listing resolves to nothing, the
\* operation returns an empty list and issues no scoped fetch: only the lookup
\* listing is requested, by get_vms_in_resource_pool, get_vms_in_cluster and
\* get_resource_pools_in_cluster alike.
C12_NoFetchWhenNotFound ==
    /\ (Called("get_vms_in_resource_pool") /\ NoResourcePoolNamed)
           => OnlyLookup("get_resource_pools")
    /\ (Called("get_vms_in_cluster") /\ NoClusterNamed) => OnlyLookup("get_clusters")
    /\ (Called("get_resource_pools_in_cluster") /\ NoClusterNamed)
           => OnlyLookup("get_clusters")

\* the pool "Gold" is listed, "gold" is asked for, and only the lookup was requested
C12_Witness ==
    /\ Called("get_vms_in_resource_pool")
    /\ call.arg = Some("gold")
    /\ call.requests[1].answer = Ok(<<RawGold>>)
    /\ Len(call.requests) = 1
    /\ call.returned.val = <<>>

\* the answer is a 2xx answer whose body is a JSON object
Succeeded(answer) == answer.kind = "ok" /\ answer.body.type = "object"

\* the size of the listing an answer carries
ListingSize(answer) == IF answer.body.has_value THEN Len(answer.body.value) ELSE 0

\* C13: when every remote call succeeds, get_vcenter_status returns the snapshot
\* tagged "Connected" with the host set and the three counts equal to the sizes
\* of the unfiltered cluster, resource pool and VM listings.
C13_ConnectedCounts ==
    (/\ Called("get_vcenter_status")
     /\ \A i \in 1..Len(call.requests) : Succeeded(call.requests[i].answer))
        => /\ Len(call.requests) = 4
           /\ call.requests[2].url = ServiceHost(config) \o "/rest/vcenter/cluster"
           /\ call.requests[3].url = ServiceHost(config) \o "/rest/vcenter/resource-pool"
           /\ call.requests[4].url = ServiceHost(config) \o "/rest/vcenter/vm"
           /\ config.host # ""
           /\ call.returned.val =
                  [connection_status |-> "Connected",
                   host |-> config.host,
                   clusters_count |-> ListingSize(call.requests[2].answer),
                   resource_pools_count |-> ListingSize(call.requests[3].answer),
                   vms_count |-> ListingSize(call.requests[4].answer)]

\* 2 clusters, 3 resource pools and 5 VMs are listed and the snapshot counts 2, 3, 5
C13_Witness ==
    /\ Called("get_vcenter_status")
    /\ Len(call.requests) = 4
    /\ call.requests[2].answer = Ok(<<RawProd, RawProd>>)
    /\ call.requests[3].answer = Ok(<<RawGold, RawGold, RawGold>>)
    /\ call.requests[4].answer = Ok(<<RawWeb, RawWeb, RawWeb, RawWeb, RawWeb>>)
    /\ call.returned.val.connection_status = "Connected"
    /\ call.returned.val.clusters_count = 2
    /\ call.returned.val.resource_pools_count = 3
    /\ call.returned.val.vms_count = 5

\* C18: the host of every config that configuration resolution produces has its
\* trailing slash stripped: neither the host the config carries nor the host a
\* status snapshot reports ends with "/".
C18_HostStripped ==
    Called("get_vcenter_status")
        => /\ ~EndsWith(config.host, "/")
           /\ ~EndsWith(call.returned.val.host, "/")

\* the listing the only request of the call was answered with
ListedRawClusters == call.requests[1].answer.body.value

\* the clusters returned are the records of the listing, one for one and in
\* order, each field the value of the record or "Unknown" when the record lacks it
ClusterPerRecord ==
    /\ Len(call.requests) = 1
    /\ call.requests[1].op = "get_clusters"
    /\ Len(call.returned.val) = Len(ListedRawClusters)
    /\ \A i \in 1..Len(ListedRawClusters) :
          /\ call.returned.val[i].cluster_id
                 = IF "cluster" \in DOMAIN ListedRawClusters[i]
                   THEN ListedRawClusters[i].cluster ELSE Some("Unknown")
          /\ call.returned.val[i].name
                 = IF "name" \in DOMAIN ListedRawClusters[i]
                   THEN ListedRawClusters[i].name ELSE Some("Unknown")

\* C19: get_clusters returns exactly one Cluster per raw cluster record, in the
\* same order, and calls the cluster listing of the service exactly once; the
\* cluster_id and the name of each Cluster is the value of the record when the
\* field is present and "Unknown" when it is missing, and neither is ever null.
C19_OneClusterPerRecord ==
    (/\ Called("get_clusters")
     /\ Succeeded(call.requests[1].answer)
     /\ call.requests[1].answer.body.has_value)
        => /\ ClusterPerRecord
           /\ \A i \in 1..Len(call.returned.val) :
                  call.returned.val[i].cluster_id # None /\ call.returned.val[i].name # None

-----------------------------------------------------------------------------
(* Claims about the formatters, checked under SpecView.                    *)

\* C14: the cluster-list formatter applied to the empty list returns exactly
\* "No clusters found in vCenter", the sentence the list_clusters tool returns
\* for an empty listing.
C14_EmptyClusterSentence ==
    (Called("format_cluster_list") /\ call.arg = <<>>)
        => /\ call.result = "No clusters found in vCenter"
           /\ call.result = Tool_list_clusters(Return(<<>>)).val

\* the position of the first newline of a text from position i on, one past the
\* end of the text when there is none
NextNewline(s, i) ==
    CHOOSE j \in i..(Len(s) + 1) :
        /\ j = Len(s) + 1 \/ CharAt(s, j) = "\n"
        /\ \A k \in i..(j - 1) : CharAt(s, k) # "\n"

\* the lines of a text from position i on: each piece that a newline ends,
\* without the newline
RECURSIVE LinesFrom(_, _)
LinesFrom(s, i) ==
    IF NextNewline(s, i) > Len(s) THEN <<>>
    ELSE <<SubSeq(s, i, NextNewline(s, i) - 1)>> \o LinesFrom(s, NextNewline(s, i) + 1)

LinesOf(s) == LinesFrom(s, 1)

\* the text is a header line followed by one line per entity, in order, each
\* ended by a newline
HeaderAndLines(text, header, lines) ==
    /\ EndsWith(text, "\n")
    /\ LinesOf(text) = <<header>> \o lines

\* C15: for a non-empty list each list formatter returns its header line followed
\* by exactly one line per entity, in input order, each ended by a newline:
\* "- {name} (ID: {cluster_id})" for clusters, "- {name} (Power: {power_state})"
\* for VMs, "- {name} (ID: {resource_pool_id})" for resource pools; for an empty
\* list each returns a sentence, never the empty string.
C15_HeaderThenOneLineEach ==
    /\ (Called("format_cluster_list") /\ call.arg # <<>>)
           => HeaderAndLines(call.result, "Clusters in vCenter:",
                             [i \in 1..Len(call.arg) |->
                                 "- " \o Str(call.arg[i].name)
                                      \o " (ID: " \o Str(call.arg[i].cluster_id) \o ")"])
    /\ (Called("format_vm_list") /\ call.arg # <<>>)
           => HeaderAndLines(call.result, "Virtual machines in " \o call.context.v \o ":",
                             [i \in 1..Len(call.arg) |->
                                 "- " \o Str(call.arg[i].name)
                                      \o " (Power: " \o Str(call.arg[i].power_state) \o ")"])
    /\ (Called("format_resource_pool_list") /\ call.arg # <<>>)
           => HeaderAndLines(call.result, "Resource pools in " \o call.context.v \o ":",
                             [i \in 1..Len(call.arg) |->
                                 "- " \o Str(call.arg[i].name)
                                      \o " (ID: " \o Str(call.arg[i].resource_pool_id) \o ")"])
    /\ (/\ call # Ready
        /\ call.op \in {"format_cluster_list", "format_vm_list", "format_resource_pool_list"}
        /\ call.arg = <<>>)
           => call.result # ""

\* two resource pools are formatted for the context of a cluster
C15_Witness ==
    /\ Called("format_resource_pool_list")
    /\ call.context = Some("cluster 'Prod'")
    /\ Len(call.arg) = 2
    /\ call.result
           = "Resource pools in cluster 'Prod':\n- Gold (ID: resgroup-1)\n- Unknown (ID: resgroup-2)\n"

\* the snapshot given to format_status carries the tag, and a message if asked
Tagged(tag, keys) ==
    /\ Called("format_status")
    /\ keys \subseteq DOMAIN call.arg
    /\ call.arg.connection_status = tag

\* C16: format_status maps a snapshot tagged "Failed" to "Error: {message}", one
\* tagged "Error" to "Error getting vCenter status: {message}", and one tagged
\* "Connected" to the status header followed, in this order, by
\* "- Connected to: {host}", "- Clusters: {n}", "- Resource Pools: {n}",
\* "- Virtual Machines: {n}", "- Connection: Connected", the three n being the
\* counts of the snapshot.
C16_StatusTexts ==
    /\ Tagged("Failed", {"connection_status", "error"})
           => call.result = "Error: " \o call.arg.error
    /\ Tagged("Error", {"connection_status", "error"})
           => call.result = "Error getting vCenter status: " \o call.arg.error
    /\ Tagged("Connected", {"connection_status", "host", "clusters_count",
                            "resource_pools_count", "vms_count"})
           => HeaderAndLines(call.result, "vCenter Status:",
                             <<"- Connected to: " \o call.arg.host,
                               "- Clusters: " \o ToString(call.arg.clusters_count),
                               "- Resource Pools: "
                                   \o ToString(call.arg.resource_pools_count),
                               "- Virtual Machines: " \o ToString(call.arg.vms_count),
                               "- Connection: Connected">>)

\* a snapshot tagged Connected with the counts 2, 3 and 5 is formatted
C16_Witness ==
    /\ Tagged("Connected", {"connection_status", "host", "clusters_count",
                            "resource_pools_count", "vms_count"})
    /\ call.arg.clusters_count = 2
    /\ call.arg.resource_pools_count = 3
    /\ call.arg.vms_count = 5
    /\ call.result = "vCenter Status:\n- Connected to: " \o call.arg.host
                         \o "\n- Clusters: 2\n- Resource Pools: 3\n- Virtual Machines: 5\n"
                         \o "- Connection: Connected\n"

-----------------------------------------------------------------------------
(* Claims about the server process, checked under SpecMain.                *)

\* C17: when configuration resolution fails inside create_mcp_server, the error
\* leaves create_mcp_server before the controller is constructed and before the
\* health route or any tool is registered; main then exits with status 1, the
\* HTTP transport is never started and no tool is ever invoked in that run.
C17_FailedResolutionExits ==
    /\ [](server.resolution = "failed"
            => /\ cfgCall.result.raised
               /\ ~server.controller /\ ~server.view /\ ~server.app
               /\ ~server.health /\ ~server.tools /\ ~server.transport
               /\ call = Idle
               /\ server.pc \in {"raised", "exited"}
               /\ server.pc = "exited" => server.exit = Some(1))
    /\ [][server.resolution = "failed"
            => /\ server'.resolution = "failed"
               /\ server.pc = "raised" => (server'.pc = "exited" /\ server'.exit = Some(1))
               /\ call' = Idle]_vars

\* no credentials in the environment: the process has exited with status 1
C17_Witness ==
    /\ server.resolution = "failed"
    /\ cfgCall.result.msg = CredentialsNotFound
    /\ server.pc = "exited"
    /\ server.exit = Some(1)

-----------------------------------------------------------------------------
(* More claims about the configuration resolver, checked under SpecConfig. *)

\* the service binding has been asked, and every descriptor it holds can be read
BindingScanned ==
    /\ cfgCall.op = "_get_credentials_from_service_binding"
    /\ \A i \in 1..Len(BoundServices) : Readable(BoundServices[i])

\* the position of the first descriptor for which P holds, 0 when there is none
FirstDescriptor(P(_)) ==
    IF \E i \in 1..Len(BoundServices) : P(BoundServices[i])
    THEN CHOOSE i \in 1..Len(BoundServices) :
             /\ P(BoundServices[i])
             /\ \A j \in 1..(i - 1) : ~P(BoundServices[j])
    ELSE 0

\* d matches a keyword and holds the three credentials
Usable(d) == HasKeyword(d) /\ CompleteCredentials(d)

-----------------------------------------------------------------------------
(* Malformed bindings.                                                     *)

\* VCAP_SERVICES is set to a non-empty text that is not JSON
MalformedBinding ==
    /\ env.VCAP_SERVICES.set
    /\ ~env.VCAP_SERVICES.empty
    /\ json_loads(env.VCAP_SERVICES).raised

\* C21: when VCAP_SERVICES holds malformed JSON, _get_credentials_from_service_binding
\* returns None; get_vcenter_credentials and get_vcenter_config then succeed
\* with the environment triple when it is complete, and otherwise raise the
\* ValueError "vCenter credentials not found ...", never a JSON parsing error.
C21_MalformedBindingIsAbsent ==
    MalformedBinding =>
        /\ cfgCall.op = "_get_credentials_from_service_binding" => cfgCall.result = None
        /\ cfgCall.op \in {"get_vcenter_credentials", "get_vcenter_config"} =>
              IF EnvTripleSet
              THEN /\ ~cfgCall.result.raised
                   /\ cfgCall.result.val.host = env.VCENTER_HOST.v
                   /\ cfgCall.result.val.username = env.VCENTER_USERNAME.v
                   /\ cfgCall.result.val.password = env.VCENTER_PASSWORD.v
              ELSE cfgCall.result = Raise("ValueError", CredentialsNotFound)

\* the resolver has met a malformed binding with an incomplete environment
\* triple and has raised the configuration error
C21_Witness ==
    /\ MalformedBinding
    /\ ~EnvTripleSet
    /\ env.VCENTER_HOST.set
    /\ cfgCall.op = "get_vcenter_config"
    /\ cfgCall.result.raised
    /\ cfgCall.result.exc = "ValueError"

-----------------------------------------------------------------------------
(* Scoped listings.                                                        *)

\* the cluster the lookup of the call resolves its argument to, if any
ResolvedCluster == FirstNamed(ListedClusters, call.arg.v)

\* the resource pool the lookup of the call resolves its argument to, if any
ResolvedResourcePool == FirstRawNamed(ListedRawResourcePools, call.arg.v)

\* the URL of a listing filtered by one identifier
FilteredUrl(endpoint, filter, id) ==
    RStripSlash(config.host) \o "/rest/" \o endpoint \o "?" \o filter \o "=" \o Str(id)

\* the call issued its lookup and then one fetch, at the given URL
FetchedAt(url) ==
    /\ Len(call.requests) = 2
    /\ call.requests[2].method = "GET"
    /\ call.requests[2].url = url

\* C22: whenever a cluster or a resource pool is found by name, the scoped fetch
\* that follows carries the resolved identifier as its query filter:
\* "?clusters={id}" for get_resource_pools_in_cluster and get_vms_in_cluster,
\* "?resource_pools={id}" for get_vms_in_resource_pool, for every identifier
\* the listing can hold, the empty string included.
C22_ScopedFetchIsFiltered ==
    /\ (Called("get_resource_pools_in_cluster") /\ ResolvedCluster.set)
           => FetchedAt(FilteredUrl("vcenter/resource-pool", "clusters",
                                    ResolvedCluster.v.cluster_id))
    /\ (Called("get_vms_in_cluster") /\ ResolvedCluster.set)
           => FetchedAt(FilteredUrl("vcenter/vm", "clusters", ResolvedCluster.v.cluster_id))
    /\ (Called("get_vms_in_resource_pool") /\ ResolvedResourcePool.set)
           => FetchedAt(FilteredUrl("vcenter/vm", "resource_pools",
                                    ResolvedResourcePool.v.resource_pool_id))

\* C23: every VirtualMachine returned by get_vms_in_cluster carries the
\* identifier of the resolved cluster and no resource pool identifier; every
\* VirtualMachine returned by get_vms_in_resource_pool carries the identifier of
\* the resolved resource pool and no cluster identifier, whatever fields the raw
\* VM and pool records hold.
C23_VmsCarryResolvedScope ==
    /\ Called("get_vms_in_cluster") =>
           \A i \in 1..Len(call.returned.val) :
               /\ ResolvedCluster.set
               /\ call.returned.val[i].cluster_id = ResolvedCluster.v.cluster_id
               /\ call.returned.val[i].resource_pool_id = None
    /\ Called("get_vms_in_resource_pool") =>
           \A i \in 1..Len(call.returned.val) :
               /\ ResolvedResourcePool.set
               /\ call.returned.val[i].resource_pool_id
                      = ResolvedResourcePool.v.resource_pool_id
               /\ call.returned.val[i].cluster_id = None

\* a raw VM that names a cluster and a resource pool of its own was listed for
\* the pool "Gold" and came back with the identifier of "Gold" only
C23_Witness ==
    /\ Called("get_vms_in_resource_pool")
    /\ call.requests[1].answer = Ok(<<RawGold>>)
    /\ Len(call.requests) = 2
    /\ call.requests[2].answer = Ok(<<RawDb, RawWeb>>)
    /\ Len(call.returned.val) = 2
    /\ call.returned.val[1].resource_pool_id = Some("resgroup-1")
    /\ call.returned.val[1].cluster_id = None

-----------------------------------------------------------------------------
(* Requests of one call.                                                   *)

\* the service operations a call went through, one per request it issued
RequestOps == [i \in 1..Len(call.requests) |-> call.requests[i].op]

\* the request failed: no 2xx answer with a JSON object came back
Failed(request) == ~Succeeded(request.answer)

\* C24: no retries.  Every read operation of the API client issues exactly one
\* GET whether it succeeds or fails, and no layer above issues a request again
\* because an earlier one failed: a call's requests are its lookup and, when
\* the lookup found the name, one fetch; a failed request yields the empty
\* listing and a failed lookup ends the call.
C24_NoRetries ==
    call # Ready =>
        /\ \A i \in 1..Len(call.requests) :
               /\ call.requests[i].method = "GET"
               /\ Failed(call.requests[i]) => call.requests[i].returned = Return(<<>>)
        /\ call.op \in {"get_clusters", "get_cluster_by_name"}
               => RequestOps = <<"get_clusters">>
        /\ call.op = "get_resource_pool_by_name" => RequestOps = <<"get_resource_pools">>
        /\ call.op = "get_resource_pools_in_cluster"
               => RequestOps = IF ResolvedCluster.set
                               THEN <<"get_clusters", "get_resource_pools">>
                               ELSE <<"get_clusters">>
        /\ call.op = "get_vms_in_cluster"
               => RequestOps = IF ResolvedCluster.set
                               THEN <<"get_clusters", "get_virtual_machines">>
                               ELSE <<"get_clusters">>
        /\ call.op = "get_vms_in_resource_pool"
               => RequestOps = IF ResolvedResourcePool.set
                               THEN <<"get_resource_pools", "get_virtual_machines">>
                               ELSE <<"get_resource_pools">>
        /\ call.op = "get_vcenter_status" => Len(call.requests) = 4
        /\ call.op # "get_vcenter_status" =>
               (Failed(call.requests[1]) => Len(call.requests) = 1)

\* the fetch of the VMs of "Prod" failed and was not issued again
C24_Witness ==
    /\ Called("get_vms_in_cluster")
    /\ call.requests[1].answer = Ok(<<RawProd>>)
    /\ Len(call.requests) = 2
    /\ call.requests[2].answer = NetworkError
    /\ call.returned.val = <<>>

-----------------------------------------------------------------------------
(* Concurrent invocations, checked under SpecConcurrent.                   *)

\* what the invocation of a slot leaves behind when it runs alone on the
\* configuration the server was built with
RunAlone(slot) ==
    RunTool(cfgCall.result.val, call[slot].tool, call[slot].arg, call[slot].answers)

C26_RequestsCarrySessionSettings ==
    call # Ready =>
        \A i \in 1..Len(call.requests) :
            /\ call.requests[i].timeout = Some(config.timeout)
            /\ call.requests[i].auth
                   = [scheme |-> "basic", username |-> config.username,
                      password |-> config.password]
            /\ call.requests[i].verify = config.verify_ssl

\* the count a status snapshot gives for the listing a request was answered with
CountOf(request) == IF Failed(request) THEN 0 ELSE ListingSize(request.answer)

-----------------------------------------------------------------------------
(* The source of the credentials, checked under SpecConfig.                *)

\* the host, username and password a resolver call returned
ResolvedTriple ==
    VCenterCredentials(cfgCall.result.val.host, cfgCall.result.val.username,
                       cfgCall.result.val.password)

\* C28: resolved credentials come entirely from one source.  With a complete
\* environment triple they are the three environment values; with an
\* incomplete one (only VCENTER_HOST set, say) no environment value is used and
\* host, username and password are those of one and the same descriptor of the
\* binding.
C28_OneSource ==
    (cfgCall.op \in {"get_vcenter_credentials", "get_vcenter_config"}
        /\ ~cfgCall.result.raised)
        => IF EnvTripleSet
           THEN ResolvedTriple = VCenterCredentials(env.VCENTER_HOST.v,
                                                    env.VCENTER_USERNAME.v,
                                                    env.VCENTER_PASSWORD.v)
           ELSE \E i \in 1..Len(BoundServices) :
                    /\ HasKeyword(BoundServices[i])
                    /\ CompleteCredentials(BoundServices[i])
                    /\ ResolvedTriple = CredentialsOf(BoundServices[i])

\* only VCENTER_HOST is set, a binding is usable, and the resolved host is the
\* host of the binding
C28_Witness ==
    /\ cfgCall.op = "get_vcenter_config"
    /\ Truthy(env.VCENTER_HOST)
    /\ ~env.VCENTER_USERNAME.set
    /\ ~env.VCENTER_PASSWORD.set
    /\ ~cfgCall.result.raised
    /\ cfgCall.result.val.host # env.VCENTER_HOST.v
    /\ cfgCall.result.val.username = "service-admin"

\* the URLs a call requested, in the order it requested them
RequestUrls == [i \in 1..Len(call.requests) |-> call.requests[i].url]

-----------------------------------------------------------------------------
(* Records without a name.                                                 *)

\* the raw records the lookup request of the call handed to the controller
LookedUp == call.requests[1].returned.val

\* the first record of the looked-up listing that has no name field, 0 if none
FirstNameless ==
    IF \E i \in 1..Len(LookedUp) : "name" \notin DOMAIN LookedUp[i]
    THEN CHOOSE i \in 1..Len(LookedUp) :
             /\ "name" \notin DOMAIN LookedUp[i]
             /\ \A j \in 1..(i - 1) : "name" \in DOMAIN LookedUp[j]
    ELSE 0

\* no record of the looked-up listing carries the name as a field
NoneNamed(name) ==
    \A i \in 1..Len(LookedUp) :
        "name" \in DOMAIN LookedUp[i] => LookedUp[i].name # Some(name)

\* C30: name lookup treats records without a name differently for clusters and
\* for pools.  get_cluster_by_name("Unknown") returns the cluster of a raw
\* record that has no name field, the lookup comparing with the defaulted name;
\* get_resource_pool_by_name("Unknown") never returns the pool of a raw record
\* that has no name field, the lookup comparing with the raw name.
C30_NamelessRecords ==
    /\ (Called("get_cluster_by_name") /\ call.arg = Some("Unknown")
            /\ NoneNamed("Unknown") /\ FirstNameless # 0)
           => call.returned.val
                  = Some(Cluster(dict_get(LookedUp[FirstNameless], "cluster", Some("Unknown")),
                                 Some("Unknown")))
    /\ (Called("get_resource_pool_by_name") /\ call.returned.val.set)
           => \E i \in 1..Len(LookedUp) :
                  /\ "name" \in DOMAIN LookedUp[i]
                  /\ LookedUp[i].name = call.arg
                  /\ call.returned.val.v.resource_pool_id
                         = dict_get(LookedUp[i], "resource_pool", Some("Unknown"))
    /\ (Called("get_resource_pool_by_name") /\ call.arg = Some("Unknown")
            /\ NoneNamed("Unknown"))
           => call.returned.val = None

\* a cluster record without a name answers the query "Unknown", after a named
\* record that does not
C30_Witness ==
    /\ Called("get_cluster_by_name")
    /\ call.arg = Some("Unknown")
    /\ call.requests[1].answer = Ok(<<RawProd, RawBareCluster>>)
    /\ call.returned.val = Some(Cluster(Some("Unknown"), Some("Unknown")))

====
